---- MODULE Spec2Model ----
(***************************************************************************)
(* A model of the weighted exact cover solvers of snow-abstraction/cover:  *)
(* instance validation (MakeInstance), the two brute-force solvers         *)
(* (combination based and bitmask based), and the branch-and-bound driver  *)
(* with its search tree, priority queue, sparse matrix kernel and          *)
(* Lagrangian dual engine.                                                 *)
(*                                                                         *)
(* Numbers.  Costs, cost sums and the objective values of covers are whole *)
(* numbers in every input the model draws; float64 holds them and their    *)
(* sums exactly, and the solvers' instances and results hold them as       *)
(* integers.  Every value of the matrix kernel, the dual engine and the    *)
(* nodes' lower bounds (vectors x, u, u*A, A*x, costs, step lengths, the   *)
(* dual objective) is a float64 held exactly: a sign with a magnitude, the *)
(* magnitude being the sequence of base-2^20 limbs of the value times      *)
(* 2^80, lowest limb first.  Every operation rounds its exact result to 53 *)
(* significant bits, ties to even, as IEEE-754 does; a division by zero    *)
(* gives an infinity or NaN, which the later operations carry on as        *)
(* IEEE-754 does.  The counter aContrib of the dual engine, a float64      *)
(* holding a small whole number, is an integer.                            *)
(***************************************************************************)
EXTENDS Integers, Sequences, FiniteSets, TLC

VARIABLES
    input,            \* the caller's (m, subsets, costs) triple
    pc,               \* position of the caller / of the running solver
    solverInstance,   \* the instance returned by the last MakeInstance
    makeErr,          \* the error returned by the last MakeInstance
    nSubsets,         \* SolveByBruteForceInternal: loop variable i
    combinations,     \* SolveByBruteForceInternal: the CombinationGenerator
    bestSubsetsEval,  \* brute force: the incumbent evaluation
    evaluated,        \* brute force: number of selections swept so far
    bruteRet,         \* what SolveByBruteForce returned
    comb,             \* SolveByBruteForceInternal2: the uint32 bitset comb
    masksDone,        \* SolveByBruteForceInternal2: passes of its loop so far,
                      \* a number held as the set of its 1 bits
    brute2Ret,        \* what SolveByBruteForceInternal2 returned
    bbIns,            \* B&B: the duplicate-reduced instance
    originalIndexMap, \* B&B: new index -> original index
    toFathom,         \* B&B: the heap array of the priority queue
    incumbent,        \* B&B: the incumbent best (<<>> is nil)
    popped,           \* B&B: number of nodes popped so far
    dualRuns,         \* B&B: number of runDualIterations calls so far
    outcome,          \* B&B: what happened to the node popped last
    bbRet,            \* what SolveByBranchAndBound returned
    callArgs,         \* the arguments of a direct call of an internal function
    callResult        \* what that call returned (and its intermediate values)

vars == <<input, pc, solverInstance, makeErr, nSubsets, combinations, bestSubsetsEval, evaluated,
          bruteRet, comb, masksDone, brute2Ret, bbIns, originalIndexMap, toFathom,
          incumbent, popped, dualRuns, outcome, bbRet, callArgs, callResult>>

bruteVars == <<nSubsets, combinations, bestSubsetsEval, evaluated, bruteRet>>
brute2Vars == <<comb, masksDone, brute2Ret>>
bbVars == <<bbIns, originalIndexMap, toFathom, incumbent, popped, dualRuns,
            outcome, bbRet>>
callVars == <<callArgs, callResult>>

----------------------------------------------------------------------------
(* Bounds of the model. *)

\* largest element count m of the enumerated valid instances
MaxM == 3
\* largest number of subsets n of the enumerated valid instances
MaxN == 3
\* costs of the enumerated valid instances are 1..MaxCost
MaxCost == 2
\* the enumerated valid instances given to the solvers have at most
\* MaxSolverM elements
MaxSolverM == 2
\* raw (unvalidated) triples: element count in -1..MaxRawM
MaxRawM == 2
\* raw triples: at most MaxRawN subsets / costs
MaxRawN == 2
\* raw triples: each subset has at most MaxRawLen entries
MaxRawLen == 2
\* iteration limit of the dual engine: "n := 1000"
MaxDualIterations == 1000
\* passes of SolveByBruteForceInternal2 that cannot change its incumbent are
\* followed one at a time while fewer than 2 ^ MaxMaskBits passes were made
MaxMaskBits == 5
\* flat matrices given to the matrix kernel have at most MaxMatrixLen entries
MaxMatrixLen == 4
\* and indices in 0..MaxMatrixIndex
MaxMatrixIndex == 2
\* combination generators are made for n and k in -1..MaxGeneratorN
MaxGeneratorN == 5
\* and are called MaxExtraCalls more times after Next first returned false
MaxExtraCalls == 2
\* matrices given to the dual engine directly have at most MaxDualCols columns
MaxDualCols == 3
\* over the rows 0..MaxDualRows-1
MaxDualRows == 2
\* nodes given to createSubInstance directly lie at most MaxNodeDepth below the root
MaxNodeDepth == 2
\* the queue used on its own takes at most MaxPushes pushes
MaxPushes == 5
\* of nodes with lower bounds 0..MaxLowerBound
MaxLowerBound == 2
\* nodes given to the branching step directly lie at most MaxBranchDepth
\* below the root
MaxBranchDepth == 1

----------------------------------------------------------------------------
(* Generic helpers. *)

Max(a, b) == IF a >= b THEN a ELSE b

Min(a, b) == IF a <= b THEN a ELSE b

SetMax(S) == CHOOSE x \in S : \A y \in S : y <= x

SetMin(S) == CHOOSE x \in S : \A y \in S : x <= y

Range(s) == {s[k] : k \in DOMAIN s}

RECURSIVE SeqSum(_)
SeqSum(s) == IF s = <<>> THEN 0 ELSE s[1] + SeqSum(Tail(s))

\* the strictly increasing sequence of the elements of a finite set of integers
RECURSIVE SortedSeq(_)
SortedSeq(S) ==
    IF S = {} THEN <<>> ELSE <<SetMin(S)>> \o SortedSeq(S \ {SetMin(S)})

\* all sequences over S of length at most n
SeqsUpTo(S, n) == UNION {[1..k -> S] : k \in 0..n}

----------------------------------------------------------------------------
(* Errors.  The code returns Go error values; the model keeps their kind   *)
(* and the index the message names.                                        *)

NoError == [kind |-> "nil", index |-> -1]

Error(kind, index) == [kind |-> kind, index |-> index]

----------------------------------------------------------------------------
(* float64.  A nonnegative float64 is a magnitude; a float64 of either     *)
(* sign is a record [neg, mag].  Sums, differences, products with a whole  *)
(* number and quotients by a whole number are rounded as IEEE-754 rounds   *)
(* them; no product is fused with a following addition.  The infinities   *)
(* and NaN are records of the same shape.                                  *)

\* a magnitude has five limbs of LimbBits bits, the lowest first; the four low
\* limbs hold the fraction and the fifth the whole part
LimbBits == 20
Limb == 2 ^ LimbBits
\* the significand of a float64 has 53 bits
SignificandBits == 53

\* float64(0) and float64(c) for a whole number c >= 0
Zero64 == <<0, 0, 0, 0, 0>>
Whole64(c) == <<0, 0, 0, 0, c>>

\* the number of bits of x, 0 <= x < 2^20
BitLen5(x) ==
    IF x < 1 THEN 0 ELSE IF x < 2 THEN 1 ELSE IF x < 4 THEN 2
    ELSE IF x < 8 THEN 3 ELSE IF x < 16 THEN 4 ELSE 5
BitLen10(x) == IF x < 32 THEN BitLen5(x) ELSE 5 + BitLen5(x \div 32)
BitLen(x) == IF x < 1024 THEN BitLen10(x) ELSE 10 + BitLen10(x \div 1024)

\* carries propagated from the lowest limb upwards
Carry(n) ==
    LET l2 == n[2] + (n[1] \div Limb)
        l3 == n[3] + (l2 \div Limb)
        l4 == n[4] + (l3 \div Limb)
        l5 == n[5] + (l4 \div Limb)
    IN  <<n[1] % Limb, l2 % Limb, l3 % Limb, l4 % Limb, l5>>

\* the highest limb of the magnitude n that is not 0, or limb 1
TopLimb(n) ==
    IF n[5] > 0 THEN 5 ELSE IF n[4] > 0 THEN 4 ELSE IF n[3] > 0 THEN 3
    ELSE IF n[2] > 0 THEN 2 ELSE 1

\* the number of significant bits of a magnitude n whose highest limb is q
BitsFrom(n, q) == (q - 1) * LimbBits + BitLen(n[q])

\* the number of significant bits of the magnitude n
Bits(n) == BitsFrom(n, TopLimb(n))

\* n with its limbs below limb c cleared and limb c replaced by v
CutAt(n, c, v) ==
    Carry([q \in 1..5 |-> IF q < c THEN 0 ELSE IF q = c THEN v ELSE n[q]])

\* something of the exact value lies below limb j of n
Below(n, sticky, j) == sticky \/ \E q \in 1..(j - 1) : n[q] # 0

\* n rounded at the bit of value p of limb c: rem is what limb c holds below
\* that bit and rest tells that something lies below the bit under it
RoundUp(n, c, p, rem, half, rest) ==
    CutAt(n, c, IF rem >= half /\ (rest \/ (n[c] \div p) % 2 = 1)
                THEN n[c] - rem + p ELSE n[c] - rem)

\* n rounded below bit p of limb c, p > 1
RoundInLimb(n, sticky, c, p) ==
    RoundUp(n, c, p, n[c] % p, p \div 2,
            (n[c] % (p \div 2)) # 0 \/ Below(n, sticky, c))

\* n rounded below limb c
RoundAtLimb(n, sticky, c) ==
    CutAt(n, c, IF /\ n[c - 1] >= Limb \div 2
                   /\ \/ (n[c - 1] % (Limb \div 2)) # 0
                      \/ Below(n, sticky, c - 1)
                      \/ n[c] % 2 = 1
                THEN n[c] + 1 ELSE n[c])

\* n with its d lowest significant bits rounded away
RoundAway(n, sticky, d) ==
    IF d <= 0 THEN n
    ELSE IF d % LimbBits = 0 THEN RoundAtLimb(n, sticky, (d \div LimbBits) + 1)
    ELSE RoundInLimb(n, sticky, (d \div LimbBits) + 1, 2 ^ (d % LimbBits))

\* round to nearest, ties to even, to SignificandBits significant bits; sticky
\* tells that the exact value lies above n by less than one unit of limb 1
Round64(n, sticky) == RoundAway(n, sticky, Bits(n) - SignificandBits)

\* a + b of float64, both nonnegative
Add64(a, b) ==
    Round64(Carry([q \in 1..5 |-> a[q] + b[q]]), FALSE)

\* a < b, a = b as magnitudes
RECURSIVE LessFrom(_, _, _)
LessFrom(a, b, q) ==
    IF q = 0 THEN FALSE
    ELSE IF a[q] # b[q] THEN a[q] < b[q]
    ELSE LessFrom(a, b, q - 1)
Less64(a, b) == LessFrom(a, b, 5)

\* a - b of float64, a >= b >= 0
Sub64(a, b) ==
    Round64(Carry([q \in 1..5 |->
                      a[q] - b[q] + (IF q < 5 THEN Limb ELSE 0)
                                  - (IF q > 1 THEN 1 ELSE 0)]), FALSE)

\* a * float64(d) for a whole number d >= 0
Mul64(a, d) ==
    Round64(Carry([q \in 1..5 |-> a[q] * d]), FALSE)

\* a / float64(n) for a whole number n > 0
\* the limbs of a divided by n from limb q downwards, rem carried in
RECURSIVE LongDivision(_, _, _, _, _)
LongDivision(a, n, q, rem, quot) ==
    IF q = 0 THEN [quot |-> quot, rem |-> rem]
    ELSE LongDivision(a, n, q - 1, (rem * Limb + a[q]) % n,
                      [quot EXCEPT ![q] = (rem * Limb + a[q]) \div n])

\* the quotient quot with the remainder rem of a division by n, rounded
RoundQuotient(quot, rem, n) ==
    IF Bits(quot) > SignificandBits
    THEN Round64(quot, rem # 0)
    ELSE IF 2 * rem > n \/ (2 * rem = n /\ quot[1] % 2 = 1)
    THEN Carry([quot EXCEPT ![1] = @ + 1])
    ELSE quot

DividedBy(divided, n) == RoundQuotient(divided.quot, divided.rem, n)

Div64(a, n) == DividedBy(LongDivision(a, n, 5, 0, Zero64), n)

\* float64(c) for a whole number c of either sign
Float64(c) == [neg |-> c < 0, mag |-> Whole64(IF c < 0 THEN -c ELSE c)]

\* a magnitude with a sign; a zero is never negative here
Signed64(neg, mag) == [neg |-> neg /\ mag # Zero64, mag |-> mag]

\* +Inf and -Inf share a magnitude above every finite one; NaN has one of its
\* own.  The sign and the payload of a NaN, which no operation of the code
\* reads, are not kept.
InfMag == <<0, 0, 0, 0, Limb>>
NaNMag == <<1, 0, 0, 0, Limb>>
Inf64(neg) == [neg |-> neg, mag |-> InfMag]
NaN64 == [neg |-> FALSE, mag |-> NaNMag]
IsInf(v) == v.mag = InfMag
IsNaN(v) == v.mag = NaNMag

\* v + w when v and w differ in sign and w is no further from 0 than v
Minus64(v, w) == Signed64(v.neg, Sub64(v.mag, w.mag))

\* v + w for finite v and w
FinitePlus64(v, w) ==
    IF v.neg = w.neg THEN Signed64(v.neg, Add64(v.mag, w.mag))
    ELSE IF Less64(v.mag, w.mag) THEN Minus64(w, v)
    ELSE Minus64(v, w)

\* v + w for float64 values of either sign: Inf + (-Inf) is NaN
Plus64(v, w) ==
    IF IsNaN(v) \/ IsNaN(w) THEN NaN64
    ELSE IF IsInf(v) THEN (IF IsInf(w) /\ v.neg # w.neg THEN NaN64 ELSE v)
    ELSE IF IsInf(w) THEN w
    ELSE FinitePlus64(v, w)

\* v * float64(g) for a float64 v and a whole number g, each of either sign:
\* Inf * 0 is NaN
Times64(v, g) ==
    IF IsNaN(v) THEN NaN64
    ELSE IF IsInf(v) THEN (IF g = 0 THEN NaN64 ELSE Inf64(v.neg # (g < 0)))
    ELSE Signed64(v.neg # (g < 0), Mul64(v.mag, IF g < 0 THEN -g ELSE g))

\* v / float64(n) for a float64 v and a whole number n >= 0: 0 / 0 is NaN and
\* any other v / 0 is Inf with the sign of v
Over64(v, n) ==
    IF IsNaN(v) THEN NaN64
    ELSE IF n = 0 THEN (IF v.mag = Zero64 THEN NaN64 ELSE Inf64(v.neg))
    ELSE IF IsInf(v) THEN v
    ELSE Signed64(v.neg, Div64(v.mag, n))

\* v < w for finite or infinite v and w
OrderedLess64(v, w) ==
    IF v.neg # w.neg THEN v.neg
    ELSE IF v.neg THEN Less64(w.mag, v.mag)
    ELSE Less64(v.mag, w.mag)

\* v < w and v <= w for float64 values of either sign; both are false when v
\* or w is NaN
LessThan64(v, w) == ~IsNaN(v) /\ ~IsNaN(w) /\ OrderedLess64(v, w)

NoMoreThan64(v, w) == ~IsNaN(v) /\ ~IsNaN(w) /\ ~OrderedLess64(w, v)

\* the whole number c with float64(c) = v, for a whole v
WholeOf(v) == IF v.neg THEN -v.mag[5] ELSE v.mag[5]

----------------------------------------------------------------------------
(* The inputs the model explores. *)

\* larger instances: two with a duplicated or a dominated subset, one on
\* which a node's dual objective reaches the incumbent's cost, and one whose
\* search finds its incumbent while nodes with a lower bound no less than its
\* cost are still queued
SeedInputs ==
    { [m |-> 2, subsets |-> << <<0, 1>>, <<0>>, <<1>>, <<0>> >>,
       costs |-> <<17, 7, 5, 3>>],
      [m |-> 3, subsets |-> << <<0, 1, 2>>, <<0>>, <<1>>, <<1, 2>>, <<0, 2>> >>,
       costs |-> <<17, 5, 4, 3, 3>>],
      [m |-> 3, subsets |-> << <<0, 1>>, <<0, 2>>, <<1, 2>>, <<0, 1, 2>> >>,
       costs |-> <<1, 1, 1, 2>>],
      [m |-> 4, subsets |-> << <<0>>, <<1>>, <<2, 3>>, <<0, 1, 2>> >>,
       costs |-> <<1, 1, 1, 2>>] }

Triple(m, subsets, costs) == [m |-> m, subsets |-> subsets, costs |-> costs]

\* the subset limit of the bitmask brute-force solver
BruteLimit == 32

\* n copies of the subset {0} over a one-element universe, n around BruteLimit
LargeInputs ==
    { Triple(1, [k \in 1..n |-> <<0>>], [k \in 1..n |-> 1]) :
        n \in {BruteLimit, BruteLimit + 1} }

\* every well-formed instance within MaxM, MaxN, MaxCost
ValidSubsets(m) == {SortedSeq(S) : S \in (SUBSET (0..(m - 1))) \ {{}}}

ValidInputs ==
    {Triple(0, <<>>, <<>>)} \cup
    UNION { UNION { { Triple(m, ss, cs) :
                        ss \in [1..n -> ValidSubsets(m)],
                        cs \in [1..n -> 1..MaxCost] } :
                    n \in 0..MaxN } :
            m \in 1..MaxM }

\* unvalidated triples: out-of-range and unsorted entries, empty subsets,
\* non-positive costs, mismatched lengths, negative element counts
RawInputs ==
    { Triple(m, ss, cs) :
        m \in (-1)..MaxRawM,
        ss \in SeqsUpTo(SeqsUpTo((-1)..MaxRawM, MaxRawLen), MaxRawN),
        cs \in SeqsUpTo({-1, 0, 1}, MaxRawN) }

\* the triples given to the solvers
Inputs ==
    {t \in ValidInputs : t.m <= MaxSolverM}
        \cup RawInputs \cup SeedInputs \cup LargeInputs

----------------------------------------------------------------------------
(* Instance validation: MakeInstance. *)

\* instance{} : the zero value of the instance type
ZeroInstance == [m |-> 0, subsets |-> <<>>, costs |-> <<>>]

\* a variant of the subset checks that asks for non-decreasing entries only,
\* so that a repeated entry passes
SubsetErrorAllowingRepeats(m, subset, idx) ==
    IF Len(subset) = 0 THEN Error("EmptySubset", idx)
    ELSE IF \E k \in 1..Len(subset) : subset[k] < 0 \/ subset[k] >= m
        THEN Error("IndexOutOfRange", idx)
    ELSE IF \E k \in 1..(Len(subset) - 1) : subset[k] > subset[k + 1]
        THEN Error("SubsetNotSorted", idx)
    ELSE NoError

\* the checks of one subset, in the order of the loop body (idx is 0-based)
SubsetError(m, subset, idx) ==
    IF Len(subset) = 0 THEN Error("EmptySubset", idx)
    ELSE IF \E k \in 1..Len(subset) : subset[k] < 0 \/ subset[k] >= m
        THEN Error("IndexOutOfRange", idx)
    ELSE IF \E k \in 1..(Len(subset) - 1) : subset[k] >= subset[k + 1]
        THEN Error("SubsetNotSorted", idx)
    ELSE NoError

\* the error of the first offending subset, scanning from position k
RECURSIVE FirstSubsetError(_, _, _)
FirstSubsetError(m, subsets, k) ==
    IF k > Len(subsets) THEN NoError
    ELSE IF SubsetError(m, subsets[k], k - 1) # NoError
        THEN SubsetError(m, subsets[k], k - 1)
    ELSE FirstSubsetError(m, subsets, k + 1)

\* the error of the first non-positive cost, scanning from position k
RECURSIVE FirstCostError(_, _)
FirstCostError(costs, k) ==
    IF k > Len(costs) THEN NoError
    ELSE IF costs[k] <= 0 THEN Error("NonPositiveCost", k - 1)
    ELSE FirstCostError(costs, k + 1)

MakeInstance(m, subsets, costs) ==
    IF m < 0 THEN [ins |-> ZeroInstance, err |-> Error("NegativeElementCount", -1)]
    ELSE IF m = 0 THEN
        IF Len(subsets) # 0 /\ Len(costs) # 0
        THEN [ins |-> ZeroInstance, err |-> Error("EmptyInstanceHasContent", -1)]
        ELSE [ins |-> [m |-> 0, subsets |-> <<>>, costs |-> <<>>], err |-> NoError]
    ELSE IF FirstSubsetError(m, subsets, 1) # NoError
        THEN [ins |-> ZeroInstance, err |-> FirstSubsetError(m, subsets, 1)]
    ELSE IF Len(subsets) # Len(costs)
        THEN [ins |-> ZeroInstance, err |-> Error("CostsSubsetsLengthMismatch", -1)]
    ELSE IF FirstCostError(costs, 1) # NoError
        THEN [ins |-> ZeroInstance, err |-> FirstCostError(costs, 1)]
    ELSE [ins |-> [m |-> m, subsets |-> subsets, costs |-> costs], err |-> NoError]

----------------------------------------------------------------------------
(* Evaluations: cover.SubsetsEval. *)

\* subsetsEval{} : the zero evaluation ("no exact cover")
ZeroEval ==
    [SubsetsIndices |-> <<>>, ExactlyCovered |-> FALSE, Cost |-> 0,
     Optimal |-> FALSE]

\* a variant of the empty instance's evaluation with both flags cleared
FlagsClearedEval ==
    [SubsetsIndices |-> <<>>, ExactlyCovered |-> FALSE, Cost |-> 0,
     Optimal |-> FALSE]

\* subsetsEval{ExactlyCovered: true, Optimal: true} of the empty instance
TrivialEval ==
    [SubsetsIndices |-> <<>>, ExactlyCovered |-> TRUE, Cost |-> 0,
     Optimal |-> TRUE]

\* slices.Sort on a slice of ints (insertion of each entry into a sorted prefix)
RECURSIVE InsertSorted(_, _)
InsertSorted(s, x) ==
    IF s = <<>> THEN <<x>>
    ELSE IF x < s[1] THEN <<x>> \o s
    ELSE <<s[1]>> \o InsertSorted(Tail(s), x)

RECURSIVE SlicesSort(_)
SlicesSort(s) ==
    IF s = <<>> THEN <<>>
    ELSE InsertSorted(SlicesSort(SubSeq(s, 1, Len(s) - 1)), s[Len(s)])

----------------------------------------------------------------------------
(* The combination generator of the brute-force solver. *)

\* combination = <<>> stands for the nil slice of a fresh generator
newCombinationGenerator(n, k) == [n |-> n, k |-> k, combination |-> <<>>]

\* a variant of the advancing loop that only ever moves the last position
AdvanceLastOnly(c, idx) ==
    IF c.combination[c.k] < c.n - 1
    THEN [gen |-> [c EXCEPT !.combination[c.k] = @ + 1], ok |-> TRUE]
    ELSE [gen |-> c, ok |-> FALSE]

\* the loop "for i := c.k - 1; i >= 0; i--" of Next, at 0-based position idx
RECURSIVE AdvanceFrom(_, _)
AdvanceFrom(c, idx) ==
    IF idx < 0 THEN [gen |-> c, ok |-> FALSE]
    ELSE IF c.combination[idx + 1] < c.n - c.k + idx
        THEN [gen |-> [c EXCEPT !.combination =
                          [q \in 1..c.k |->
                              IF q - 1 < idx THEN c.combination[q]
                              ELSE c.combination[idx + 1] + 1 + (q - 1 - idx)]],
              ok |-> TRUE]
    ELSE AdvanceFrom(c, idx - 1)

\* CombinationGenerator.Next: the generator afterwards and the returned bool
CombinationNext(c) ==
    IF c.combination = <<>> THEN
        IF c.n < 1 \/ c.k < 1 THEN [gen |-> c, ok |-> FALSE]
        ELSE IF c.n < c.k THEN [gen |-> c, ok |-> FALSE]
        ELSE [gen |-> [c EXCEPT !.combination = [q \in 1..c.k |-> q - 1]],
              ok |-> TRUE]
    ELSE AdvanceFrom(c, c.k - 1)

----------------------------------------------------------------------------
(* Brute force: sweeping one selection of subsets. *)

\* coverCountsScratch after adding the elements of one subset
AddSubset(coverCounts, subset) ==
    [e \in DOMAIN coverCounts |->
        coverCounts[e] + Cardinality({k \in DOMAIN subset : subset[k] = e - 1})]

\* the loop over subsetIndices from position p on; returns the new incumbent
RECURSIVE Sweep(_, _, _, _, _, _, _)
Sweep(inst, subsetIndices, p, coverCounts, cost, subsetsScratch, bestEval) ==
    IF p > Len(subsetIndices) THEN bestEval
    ELSE
        LET subsetIdx == subsetIndices[p]
            counts == AddSubset(coverCounts, inst.subsets[subsetIdx + 1])
            newCost == cost + inst.costs[subsetIdx + 1]
            scratch == Append(subsetsScratch, subsetIdx)
        IN  IF bestEval.ExactlyCovered /\ newCost >= bestEval.Cost THEN bestEval
            ELSE IF \E e \in DOMAIN counts : counts[e] > 1 THEN bestEval
            ELSE IF (\A e \in DOMAIN counts : counts[e] # 0)
                    /\ (~bestEval.ExactlyCovered \/ newCost < bestEval.Cost)
                THEN [bestEval EXCEPT !.Cost = newCost,
                                      !.ExactlyCovered = TRUE,
                                      !.SubsetsIndices = scratch]
            ELSE Sweep(inst, subsetIndices, p + 1, counts, newCost, scratch,
                       bestEval)

updateBestSolutionFromSubsets(inst, subsetIndices, bestEval) ==
    Sweep(inst, subsetIndices, 1, [e \in 1..inst.m |-> 0], 0, <<>>, bestEval)

\* nSubsetsToTry: an exact cover uses at most min(m, n) subsets
\* a variant of the selection-size limit that stops at single subsets
OnlySingleSubsets(inst) == IF Len(inst.subsets) < 1 THEN 0 ELSE 1

nSubsetsToTry(inst) ==
    IF Len(inst.subsets) < inst.m THEN Len(inst.subsets) ELSE inst.m

\* the end of both brute-force solvers: what is returned for an incumbent
BruteResult(bestEval) ==
    IF ~bestEval.ExactlyCovered THEN ZeroEval
    ELSE [bestEval EXCEPT !.SubsetsIndices = SlicesSort(bestEval.SubsetsIndices),
                          !.Optimal = TRUE]

----------------------------------------------------------------------------
(* The bitmask brute-force solver.  A uint32 is the set of its 1 bits.     *)

\* width of the uint32 bitset comb
Uint32Bits == 32

\* comb + 1 on a uint32 (all ones wraps around to 0)
Increment(bits) ==
    IF \A b \in 0..(Uint32Bits - 1) : b \in bits THEN {}
    ELSE LET z == SetMin((0..(Uint32Bits - 1)) \ bits)
         IN  (bits \ (0..(z - 1))) \cup {z}

\* last: bits 0..n-1 set
LastComb(n) == 0..(n - 1)

\* the number a set of bit positions stands for
RECURSIVE MaskValue(_)
MaskValue(bits) ==
    IF bits = {} THEN 0
    ELSE 2 ^ SetMax(bits) + MaskValue(bits \ {SetMax(bits)})

\* the set of the 1 bits of a number
BitsOfNumber(v) == {b \in 0..30 : (v \div 2 ^ b) % 2 = 1}

\* a number held as a set of bits, in two parts: bits 0..15 and the rest
LowPart(bits) == MaskValue({b \in bits : b < 16})
HighPart(bits) == MaskValue({b - 16 : b \in {c \in bits : c >= 16}})
FromParts(low, high) ==
    BitsOfNumber(low) \cup {b + 16 : b \in BitsOfNumber(high)}

\* a - b on uint32 (wraps around below 0)
Minus32(a, b) ==
    LET low == LowPart(a) - LowPart(b)
        borrow == IF low < 0 THEN 1 ELSE 0
    IN  FromParts(low + borrow * 65536,
                  (HighPart(a) - HighPart(b) - borrow + 65536) % 65536)

\* a + b on numbers of any width
PlusBits(a, b) ==
    LET low == LowPart(a) + LowPart(b)
    IN  FromParts(low % 65536, HighPart(a) + HighPart(b) + low \div 65536)

\* no pass of the loop can change the incumbent any more: there is no
\* subset to select, or the first selected subset already makes
\* "best.ExactlyCovered && cost >= best.Cost" return
IncumbentSettled(inst, bestEval) ==
    \/ Len(inst.subsets) = 0
    \/ /\ bestEval.ExactlyCovered
       /\ \A k \in DOMAIN inst.costs : inst.costs[k] >= bestEval.Cost

updateBestSolutionFromSubsets2(inst, combin, bestEval) ==
    Sweep(inst,
          SortedSeq({b \in combin : b < Len(inst.subsets)}),
          1, [e \in 1..inst.m |-> 0], 0, <<>>, bestEval)

----------------------------------------------------------------------------
(* The sparse binary matrix kernel. *)

\* the sentinel math.MaxUint32, held as the largest integer of the checker:
\* it is only ever compared for equality and exceeds every index
sen == 2147483647

hasIndices(x) == \E p \in DOMAIN x : x[p] # sen

checkValidMatrixIndices(x) ==
    IF ~hasIndices(x) THEN Error("InvalidMatrix: must contain indices", -1)
    ELSE IF x[Len(x)] # sen THEN Error("InvalidMatrix: must end in sen", -1)
    ELSE NoError

makeCompressedColumnMatrix(x) ==
    IF checkValidMatrixIndices(x) # NoError
    THEN [matrix |-> <<>>, err |-> checkValidMatrixIndices(x)]
    ELSE [matrix |-> x, err |-> NoError]

makeCompressedRowMatrix(x) ==
    IF checkValidMatrixIndices(x) # NoError
    THEN [matrix |-> <<>>, err |-> checkValidMatrixIndices(x)]
    ELSE [matrix |-> x, err |-> NoError]

\* number of sentinels, i.e. of stripes
CountSen(x) == Cardinality({p \in DOMAIN x : x[p] = sen})

\* transpose, first loop: nElementsPerColumn, grown on demand
RECURSIVE CountPass(_, _, _)
CountPass(x, p, nElementsPerColumn) ==
    IF p > Len(x) THEN nElementsPerColumn
    ELSE IF x[p] = sen THEN CountPass(x, p + 1, nElementsPerColumn)
    ELSE
        LET colIndex == x[p]
            nCols == Len(nElementsPerColumn)
            grown == IF colIndex >= nCols
                     THEN nElementsPerColumn \o [q \in 1..(colIndex - nCols + 1) |-> 0]
                     ELSE nElementsPerColumn
        IN  CountPass(x, p + 1, [grown EXCEPT ![colIndex + 1] = @ + 1])

\* a variant of the prefix sum that leaves no slot for the stripes' sentinels
RECURSIVE ColumnPosWithoutSentinelSlot(_, _)
ColumnPosWithoutSentinelSlot(nElementsPerColumn, idx) ==
    IF idx = 0 THEN 0
    ELSE ColumnPosWithoutSentinelSlot(nElementsPerColumn, idx - 1)
             + nElementsPerColumn[idx]

\* transpose, second loop: currentColumnPos[i] for 0-based i (a prefix sum)
RECURSIVE ColumnPos(_, _)
ColumnPos(nElementsPerColumn, idx) ==
    IF idx = 0 THEN 0
    ELSE ColumnPos(nElementsPerColumn, idx - 1) + nElementsPerColumn[idx] + 1

\* transpose, last loop: place the row positions; t and pos are 1-based arrays
\* of 0-based values
RECURSIVE PlacePass(_, _, _, _, _)
PlacePass(x, p, row, t, pos) ==
    IF p > Len(x) THEN [t |-> t, err |-> NoError]
    ELSE IF x[p] = sen THEN PlacePass(x, p + 1, row + 1, t, pos)
    ELSE IF t[pos[x[p] + 1] + 1] = sen
        THEN [t |-> <<>>, err |-> Error("InvalidMatrix: transpose overwrote sentinel", -1)]
    ELSE PlacePass(x, p + 1, row,
                   [t EXCEPT ![pos[x[p] + 1] + 1] = row],
                   [pos EXCEPT ![x[p] + 1] = @ + 1])

transpose(x) ==
    LET nElementsPerColumn == CountPass(x, 1, <<>>)
        nnz == Cardinality({p \in DOMAIN x : x[p] # sen})
        nCols == Len(nElementsPerColumn)
        currentColumnPos ==
            [q \in 1..nCols |-> ColumnPos(nElementsPerColumn, q - 1)]
        sentinels ==
            {currentColumnPos[q] + nElementsPerColumn[q] + 1 : q \in 1..nCols}
        t0 == [q \in 1..(nnz + nCols) |-> IF q \in sentinels THEN sen ELSE 0]
        placed == PlacePass(x, 1, 0, t0, currentColumnPos)
    IN  IF placed.err # NoError THEN [matrix |-> <<>>, err |-> placed.err]
        ELSE IF checkValidMatrixIndices(placed.t) # NoError
            THEN [matrix |-> <<>>,
                  err |-> Error("InvalidMatrix: transposed matrix is invalid", -1)]
        ELSE [matrix |-> placed.t, err |-> NoError]

\* cCSMatrix.Convert and cRSMatrix.Convert
Convert(matrix) == transpose(matrix)

\* multiply: the loop from position p with the running majorPos (0-based);
\* x and result are float64 slices
RECURSIVE MultiplyPass(_, _, _, _, _)
MultiplyPass(a, x, p, majorPos, result) ==
    IF p > Len(a) THEN result
    ELSE IF a[p] # sen
        THEN MultiplyPass(a, x, p + 1, majorPos,
                          [result EXCEPT ![majorPos + 1] = Plus64(@, x[a[p] + 1])])
    ELSE MultiplyPass(a, x, p + 1, majorPos + 1,
                      IF majorPos + 1 < Len(result)
                      THEN [result EXCEPT ![majorPos + 2] = Float64(0)]
                      ELSE result)

\* a variant of multiply that does not clear the first slot of the buffer
MultiplyKeepingFirstSlot(a, x, result) == MultiplyPass(a, x, 1, 0, result)

\* multiply(a, x, result): the contents of the result buffer afterwards
multiply(a, x, result) ==
    MultiplyPass(a, x, 1, 0, [result EXCEPT ![1] = Float64(0)])

MatrixVectorMultiply(a, x, result) == multiply(a, x, result)

\* a variant that leaves the result buffer as it is
StaleProduct(a, x, result) == result

VectorMatrixMultiply(a, x, result) == multiply(a, x, result)

\* convertSubsetsToMatrix: each subset followed by the sentinel
RECURSIVE Flatten(_)
Flatten(subsets) ==
    IF subsets = <<>> THEN <<>>
    ELSE subsets[1] \o <<sen>> \o Flatten(Tail(subsets))

convertSubsetsToMatrix(subsets) == makeCompressedColumnMatrix(Flatten(subsets))

----------------------------------------------------------------------------
(* The Lagrangian dual engine. *)

\* make([]float64, n)
Zeros64(n) == [q \in 1..n |-> Float64(0)]

\* a sequence with every entry computed
Computed(s) == s \o <<>>

\* calcMeanElementCost: the loop over aC from position p
RECURSIVE MeanPass(_, _, _, _, _, _, _)
MeanPass(aC, costs, nCols, p, colIdx, nnzInColumn, meanElementCost) ==
    IF p > Len(aC) THEN meanElementCost
    ELSE IF aC[p] = sen
        THEN MeanPass(aC, costs, nCols, p + 1, colIdx + 1, 0,
                      Plus64(meanElementCost,
                             Over64(costs[colIdx + 1], nnzInColumn * nCols)))
    ELSE MeanPass(aC, costs, nCols, p + 1, colIdx, nnzInColumn + 1,
                  meanElementCost)

calcMeanElementCost(aC, costs, nCols) ==
    MeanPass(aC, costs, nCols, 1, 0, 0, Float64(0))

\* a variant that reports the first row not covered exactly instead of the last
FirstNotCoveredExactly(aRx) ==
    IF \A q \in DOMAIN aRx : aRx[q] = Float64(1) THEN -1
    ELSE SetMin({q \in DOMAIN aRx : aRx[q] # Float64(1)}) - 1

\* the last 0-based row j with 1 - aRx[j] # 0, or -1
NotCoveredExactly(aRx) ==
    IF \A q \in DOMAIN aRx : aRx[q] = Float64(1) THEN -1
    ELSE SetMax({q \in DOMAIN aRx : aRx[q] # Float64(1)}) - 1

\* calcLagrangianDualResult: "dualObjectiveValue += costs[i] * x[i]" from
\* column q on; x[i] is 0 or 1
RECURSIVE CostPass(_, _, _, _, _)
CostPass(costs, x, q, nCols, value) ==
    IF q > nCols THEN value
    ELSE CostPass(costs, x, q + 1, nCols,
                  Plus64(value, IF x[q] = Float64(1) THEN costs[q]
                                ELSE Float64(0)))

\* calcLagrangianDualResult: "dualObjectiveValue += u[j] * g" from row q on,
\* where g = 1 - aRx[j] is a whole number
RECURSIVE SlackPass(_, _, _, _, _)
SlackPass(u, aRx, q, nRows, value) ==
    IF q > nRows THEN value
    ELSE SlackPass(u, aRx, q + 1, nRows,
                   Plus64(value, Times64(u[q], 1 - WholeOf(aRx[q]))))

\* calcLagrangianDualResult; aRx is the result buffer it multiplies into
\* the result, given the product aRx = aR * x
LagrangianDualResult(nCols, costs, x, product, nRows, u) ==
    [dualObjectiveValue |->
         SlackPass(u, product, 1, nRows,
                   CostPass(costs, x, 1, nCols, Float64(0))),
     primalSolution |->
         SortedSeq({q - 1 : q \in {r \in 1..nCols : x[r] = Float64(1)}}),
     provenOptimalExact |-> \A q \in 1..nRows : product[q] = Float64(1),
     notCoveredExactly |-> NotCoveredExactly(SubSeq(product, 1, nRows))]

calcLagrangianDualResult(nCols, costs, x, aR, aRx, nRows, u) ==
    LagrangianDualResult(nCols, costs, x, MatrixVectorMultiply(aR, x, aRx),
                         nRows, u)

\* "u[row] += step * (1.0 - aContrib)" and the projection "if u[row] < 0"
Project(moved) == IF LessThan64(moved, Float64(0)) THEN Float64(0) ELSE moved

StepAndProject(uRow, step, aContrib) ==
    Project(Plus64(uRow, Times64(step, 1 - aContrib)))

\* "1. update u": the walk over aR from position p
RECURSIVE UpdatePass(_, _, _, _, _, _, _, _)
UpdatePass(aR, x, step, p, row, aContrib, isSubgradientZero, u) ==
    IF p > Len(aR) THEN [u |-> u, isSubgradientZero |-> isSubgradientZero]
    ELSE IF aR[p] # sen
        THEN UpdatePass(aR, x, step, p + 1, row,
                        IF x[aR[p] + 1] = Float64(1) THEN aContrib + 1 ELSE aContrib,
                        isSubgradientZero, u)
    ELSE UpdatePass(aR, x, step, p + 1, row + 1, 0,
                    isSubgradientZero /\ aContrib = 1,
                    [u EXCEPT ![row + 1] = StepAndProject(@, step, aContrib)])

\* a variant of "2. find x" that selects every column
SelectEveryColumn(uaC, costs, nCols) == [q \in 1..nCols |-> Float64(1)]

\* "2. find x": x_i = 0 if uaC_i <= c_i, else 1
FindX(uaC, costs, nCols) ==
    [q \in 1..nCols |->
        IF NoMoreThan64(uaC[q], costs[q]) THEN Float64(0) ELSE Float64(1)]

\* the zero value of lagrangianDualResult
ZeroDualResult ==
    [dualObjectiveValue |-> Float64(0), primalSolution |-> <<>>,
     provenOptimalExact |-> FALSE, notCoveredExactly |-> 0]

\* the state of runDualIterations on entry to its loop
DualInit(aC, aR, costs) ==
    [aC |-> aC, aR |-> aR, costs |-> costs,
     nCols |-> CountSen(aC), nRows |-> CountSen(aR),
     initialStepLength |-> calcMeanElementCost(aC, costs, CountSen(aC)),
     k |-> 0, nextCheckStatus |-> 1,
     x |-> Zeros64(CountSen(aC)),
     u |-> Zeros64(CountSen(aR)),
     uaC |-> Zeros64(CountSen(aC)),
     aRx |-> Zeros64(CountSen(aR)),
     checked |-> FALSE,
     returned |-> FALSE,
     exit |-> "none",
     result |-> ZeroDualResult]

\* the result for the state st, and the aRx buffer it leaves behind
DualResultOf(st, x) ==
    calcLagrangianDualResult(st.nCols, st.costs, x, st.aR, st.aRx, st.nRows, st.u)

\* "return calcLagrangianDualResult(...), nil" with the x of the state: after
\* the loop ("limit") or from "if isSubgradientZero" ("subgradient")
DualReturn(st, exit) ==
    [st EXCEPT !.returned = TRUE, !.exit = exit, !.checked = FALSE,
               !.result = DualResultOf(st, st.x),
               !.aRx = MatrixVectorMultiply(st.aR, st.x, st.aRx)]

\* "if k > nextCheckStatus" taken: st holds the new x, status is its result;
\* the return on a proven optimum comes before "k++"
DualStatus(st, status) ==
    [st EXCEPT !.checked = TRUE,
               !.nextCheckStatus = @ * 2,
               !.aRx = MatrixVectorMultiply(st.aR, st.x, st.aRx),
               !.returned = status.provenOptimalExact,
               !.exit = IF status.provenOptimalExact THEN "status" ELSE "none",
               !.result = status,
               !.k = IF status.provenOptimalExact THEN @ ELSE @ + 1]

\* the end of a pass: the status check when it is due, then "k++" unless the
\* check returned
DualCheck(st) ==
    IF st.k > st.nextCheckStatus
    THEN DualStatus(st, DualResultOf(st, st.x))
    ELSE [st EXCEPT !.checked = FALSE, !.k = @ + 1]

\* "2. find x" of a pass, from the uaC computed for the new u
DualFind(st, newUaC) ==
    DualCheck([st EXCEPT !.uaC = newUaC,
                         !.x = Computed(FindX(newUaC, st.costs, st.nCols))])

\* a pass after "1. update u": the return on a zero subgradient, or the
\* rest of the pass
DualUpdated(st, upd) ==
    IF upd.isSubgradientZero
    THEN DualReturn([st EXCEPT !.u = upd.u], "subgradient")
    ELSE DualFind([st EXCEPT !.u = upd.u],
                  VectorMatrixMultiply(st.aC, upd.u, st.uaC))

\* one pass through the body of "for k := 0; k < n; k++", or the return after
\* the loop when k has reached the iteration limit
DualStep(st) ==
    IF st.k >= MaxDualIterations
    THEN DualReturn(st, "limit")
    ELSE DualUpdated(st, UpdatePass(st.aR, st.x,
                                    Over64(st.initialStepLength, 1 + st.k),
                                    1, 0, 0, TRUE, st.u))

\* DualStep, unless the call has returned
DualPass(st) == IF st.returned THEN st ELSE DualStep(st)

\* 2 ^ depth passes in a row, the first half computed before the second
RECURSIVE DualPasses(_, _)
DualPasses(st, depth) ==
    IF depth = 0 THEN DualPass(st)
    ELSE LET half == DualPasses(st, depth - 1)
         IN  IF half.returned THEN half ELSE DualPasses(half, depth - 1)

\* the least depth with 2 ^ depth > n
RECURSIVE DepthFor(_)
DepthFor(n) == IF n = 0 THEN 0 ELSE 1 + DepthFor(n \div 2)

\* the loop and the return after it: passes until the call has returned,
\* which the pass at k = MaxDualIterations makes it do at the latest
DualRun(st) == DualPasses(st, DepthFor(MaxDualIterations))

\* runDualIterations after "aR, err := aC.Convert()"
DualFrom(aC, converted, costs) ==
    IF converted.err # NoError
    THEN [result |-> ZeroDualResult, err |-> converted.err]
    ELSE [result |-> DualRun(DualInit(aC, converted.matrix, costs)).result,
          err |-> NoError]

runDualIterations(aC, costs) == DualFrom(aC, Convert(aC), costs)

\* CalcScLb: the lower bound alone
BoundOf(dual) ==
    IF dual.err # NoError
    THEN [lb |-> Float64(0), err |-> dual.err]
    ELSE [lb |-> dual.result.dualObjectiveValue, err |-> NoError]

CalcScLb(aC, costs) == BoundOf(runDualIterations(aC, costs))

----------------------------------------------------------------------------
(* The search tree.  A node holds its parent as a sequence of length 0     *)
(* (nil) or 1 (the parent node).                                           *)

\* NodeKind
Root == 0
BothBranch == 1
DiffBranch == 2

\* math.MaxFloat64, held as the largest magnitude: above every value the
\* model computes
MaxFloat64 == Signed64(FALSE, <<Limb - 1, Limb - 1, Limb - 1, Limb - 1, Limb - 1>>)

\* math.MaxUint32, held as the largest integer of the checker: above every
\* element index of the model
MaxUint32 == 2147483647

CreateRoot ==
    [Kind |-> Root, Parent |-> <<>>, LowerBound |-> MaxFloat64,
     I |-> MaxUint32, J |-> MaxUint32]

\* a variant of Node.Branch whose children are both both-branch children
BranchBothTwice(parent, lowerBound, branchConstraintOne, branchConstraintTwo) ==
    << [Kind |-> BothBranch, Parent |-> <<parent>>, LowerBound |-> lowerBound,
        I |-> branchConstraintOne, J |-> branchConstraintTwo],
       [Kind |-> BothBranch, Parent |-> <<parent>>, LowerBound |-> lowerBound,
        I |-> branchConstraintOne, J |-> branchConstraintTwo] >>

\* Node.Branch: the both-branch child and the diff-branch child
Branch(parent, lowerBound, branchConstraintOne, branchConstraintTwo) ==
    << [Kind |-> BothBranch, Parent |-> <<parent>>, LowerBound |-> lowerBound,
        I |-> branchConstraintOne, J |-> branchConstraintTwo],
       [Kind |-> DiffBranch, Parent |-> <<parent>>, LowerBound |-> lowerBound,
        I |-> branchConstraintOne, J |-> branchConstraintTwo] >>

----------------------------------------------------------------------------
(* The priority queue: container/heap over the slice pq.  Positions a, b   *)
(* are 0-based as in the code; the slice is a 1-based sequence.            *)

MakeQueue == <<>>

\* pq.Less
Less(q, a, b) == LessThan64(q[a + 1].LowerBound, q[b + 1].LowerBound)

\* pq.Swap
Swap(q, a, b) == [q EXCEPT ![a + 1] = q[b + 1], ![b + 1] = q[a + 1]]

\* heap.up
RECURSIVE HeapUp(_, _)
HeapUp(q, j) ==
    IF j = 0 THEN q
    ELSE LET parent == (j - 1) \div 2
         IN  IF ~Less(q, j, parent) THEN q
             ELSE HeapUp(Swap(q, parent, j), parent)

\* a heap.down that leaves the slice as it is
LeaveUnsifted(q, i0, n) == q

\* heap.down
RECURSIVE HeapDown(_, _, _)
HeapDown(q, i0, n) ==
    LET j1 == 2 * i0 + 1
        j == IF j1 + 1 < n /\ Less(q, j1 + 1, j1) THEN j1 + 1 ELSE j1
    IN  IF j1 >= n THEN q
        ELSE IF ~Less(q, j, i0) THEN q
        ELSE HeapDown(Swap(q, i0, j), j, n)

\* LowerBoundPriorityQueue.Push: heap.Push appends and sifts up
Push(q, node) == HeapUp(Append(q, node), Len(q))

\* LowerBoundPriorityQueue.Pop: heap.Pop swaps the root to the end, sifts
\* down and removes the last item
Pop(q) ==
    LET n == Len(q) - 1
        sifted == HeapDown(Swap(q, 0, n), 0, n)
    IN  [node |-> sifted[n + 1], queue |-> SubSeq(sifted, 1, n)]

----------------------------------------------------------------------------
(* Branch and bound: sub-instances. *)

\* a variant of slices.Contains that looks at the first entry only
FirstIs(subset, e) == subset # <<>> /\ subset[1] = e

\* slices.Contains
Contains(subset, e) == \E k \in DOMAIN subset : subset[k] = e

\* the walk "for nodeI := node; nodeI.Kind != tree.Root; nodeI = nodeI.Parent"
RECURSIVE ConstraintWalk(_, _, _)
ConstraintWalk(nodeI, branchedIndices, constraints) ==
    IF nodeI.Kind = Root THEN [constraints |-> constraints, err |-> NoError]
    ELSE IF nodeI.I >= nodeI.J
        THEN [constraints |-> <<>>, err |-> Error("should have i < j", -1)]
    ELSE IF <<nodeI.I, nodeI.J>> \in branchedIndices
        THEN [constraints |-> <<>>, err |-> Error("DuplicateBranchingPair", -1)]
    ELSE ConstraintWalk(nodeI.Parent[1],
                        branchedIndices \cup {<<nodeI.I, nodeI.J>>},
                        Append(constraints,
                               [i |-> nodeI.I, j |-> nodeI.J,
                                isBothBranch |-> nodeI.Kind = BothBranch]))

\* a variant that checks the both-branch constraints only
NoBothConstraintViolated(subset, constraints) ==
    \A k \in DOMAIN constraints :
        constraints[k].isBothBranch
            => (Contains(subset, constraints[k].i)
                    = Contains(subset, constraints[k].j))

\* whether a subset violates none of the constraints
NoConstraintsViolated(subset, constraints) ==
    \A k \in DOMAIN constraints :
        LET c == constraints[k]
            hasI == Contains(subset, c.i)
            hasJ == Contains(subset, c.j)
        IN  IF c.isBothBranch THEN hasI = hasJ ELSE ~(hasI /\ hasJ)

\* a variant that keeps every subset from position p on
AllIndices(subsets, constraints, p) == [k \in 1..(Len(subsets) - p + 1) |-> p + k - 2]

\* the 0-based indices of the kept subsets, in order, from position p on
RECURSIVE KeptIndices(_, _, _)
KeptIndices(subsets, constraints, p) ==
    IF p > Len(subsets) THEN <<>>
    ELSE IF NoConstraintsViolated(subsets[p], constraints)
        THEN <<p - 1>> \o KeptIndices(subsets, constraints, p + 1)
    ELSE KeptIndices(subsets, constraints, p + 1)

\* a variant of the cover count that saturates at one
CoveredOrNot(inst, indices) ==
    [e \in 1..inst.m |->
        IF \E k \in DOMAIN indices :
               \E r \in DOMAIN inst.subsets[indices[k] + 1] :
                   inst.subsets[indices[k] + 1][r] = e - 1
        THEN 1 ELSE 0]

\* coverCount[e] over the listed subsets
CoverCount(inst, indices) ==
    [e \in 1..inst.m |->
        SeqSum([k \in DOMAIN indices |->
                   Cardinality({r \in DOMAIN inst.subsets[indices[k] + 1] :
                                   inst.subsets[indices[k] + 1][r] = e - 1})])]

\* createSubInstance: sub is <<>> for nil, else <<the subInstance>>
createSubInstance(inst, node) ==
    LET walk == ConstraintWalk(node, {}, <<>>)
        indices == KeptIndices(inst.subsets, walk.constraints, 1)
        coverCount == CoverCount(inst, indices)
    IN  IF walk.err # NoError THEN [sub |-> <<>>, err |-> walk.err]
        ELSE IF \E e \in DOMAIN coverCount : coverCount[e] = 0
            THEN [sub |-> <<>>, err |-> NoError]
        ELSE [sub |-> << [ins |-> [m |-> inst.m,
                                   subsets |-> [k \in DOMAIN indices |->
                                                   inst.subsets[indices[k] + 1]],
                                   costs |-> [k \in DOMAIN indices |->
                                                 inst.costs[indices[k] + 1]]],
                          indices |-> indices,
                          isSolution |-> \A e \in DOMAIN coverCount :
                                            ~(coverCount[e] > 1)] >>,
              err |-> NoError]

\* a variant of sum that leaves out the last entry
SumWithoutLast(xs) == SeqSum(SubSeq(xs, 1, Len(xs) - 1))

\* sum
sum(xs) == SeqSum(xs)

\* a variant of mapIndices that leaves the indices in the inner numbering
KeepInnerIndices(indices, indexMap) == indices

mapIndices(indices, indexMap) ==
    [k \in DOMAIN indices |-> indexMap[indices[k] + 1]]

----------------------------------------------------------------------------
(* Branch and bound: duplicate reduction. *)

\* slices.Compare on two slices of ints
RECURSIVE SlicesCompare(_, _)
SlicesCompare(a, b) ==
    IF a = <<>> /\ b = <<>> THEN 0
    ELSE IF a = <<>> THEN -1
    ELSE IF b = <<>> THEN 1
    ELSE IF a[1] < b[1] THEN -1
    ELSE IF a[1] > b[1] THEN 1
    ELSE SlicesCompare(Tail(a), Tail(b))

\* the comparison handed to slices.SortFunc, on the 0-based indices a, b
CompareSubsetCost(inst, a, b) ==
    IF SlicesCompare(inst.subsets[a + 1], inst.subsets[b + 1]) # 0
    THEN SlicesCompare(inst.subsets[a + 1], inst.subsets[b + 1])
    ELSE IF inst.costs[a + 1] < inst.costs[b + 1] THEN -1
    ELSE IF inst.costs[a + 1] > inst.costs[b + 1] THEN 1
    ELSE 0

\* the distinct members of a set of slices in ascending slices.Compare order
RECURSIVE SortedSlices(_)
SortedSlices(S) ==
    IF S = {} THEN <<>>
    ELSE LET least == CHOOSE d \in S : \A e \in S : SlicesCompare(d, e) <= 0
         IN  <<least>> \o SortedSlices(S \ {least})

\* a variant that lets any copy of subset d come first, whatever its cost
AnyOfGroup(inst, d) ==
    {a \in 0..(Len(inst.subsets) - 1) : inst.subsets[a + 1] = d}

\* the indices slices.SortFunc may place first among the copies of subset d:
\* the sort is not stable, so any copy of least cost can come first
FirstOfGroup(inst, d) ==
    {a \in 0..(Len(inst.subsets) - 1) :
        /\ inst.subsets[a + 1] = d
        /\ \A b \in 0..(Len(inst.subsets) - 1) :
               inst.subsets[b + 1] = d => CompareSubsetCost(inst, a, b) <= 0}

\* the possible originalIndexMap slices: one kept index per group, from group k on
RECURSIVE IndexMaps(_, _, _)
IndexMaps(inst, groups, k) ==
    IF k > Len(groups) THEN {<<>>}
    ELSE {<<a>> \o rest : a \in FirstOfGroup(inst, groups[k]),
                          rest \in IndexMaps(inst, groups, k + 1)}

\* removeMoreExpensiveDuplicates: every (instance, originalIndexMap) it can return
removeMoreExpensiveDuplicates(inst) ==
    LET groups == SortedSlices(Range(inst.subsets))
    IN  { [ins |-> [m |-> inst.m,
                    subsets |-> groups,
                    costs |-> [k \in DOMAIN groups |-> inst.costs[f[k] + 1]]],
           originalIndexMap |-> f] :
          f \in IndexMaps(inst, groups, 1) }

----------------------------------------------------------------------------
(* Branch and bound: the branching pair. *)

\* a variant that returns the elements of either slice
UnionOfBoth(x, y) == Range(x) \cup Range(y)

\* symmetricDifference: the elements of the returned slice (its order is the
\* iteration order of a Go map, which is unspecified)
symmetricDifference(x, y) == (Range(x) \ Range(y)) \cup (Range(y) \ Range(x))

\* counts[e]: the number of subsets containing element e
ElementCounts(inst) ==
    [e \in 1..inst.m |->
        SeqSum([k \in DOMAIN inst.subsets |->
                   Cardinality({r \in DOMAIN inst.subsets[k] :
                                   inst.subsets[k][r] = e - 1})])]

\* a variant of the search for the most-covered element that keeps its start
KeepStart(counts, idx, cur) == cur

\* "for idx, c := range counts { if counts[i] < c { i = idx } }" from idx on
RECURSIVE ArgMaxFrom(_, _, _)
ArgMaxFrom(counts, idx, cur) ==
    IF idx >= Len(counts) THEN cur
    ELSE ArgMaxFrom(counts, idx + 1,
                    IF counts[cur + 1] < counts[idx + 1] THEN idx ELSE cur)

\* findBranchingElements: every (BranchIndices, error) it can return, one per
\* element the symmetric difference can list first
findBranchingElements(inst) ==
    LET counts == ElementCounts(inst)
        first == ArgMaxFrom(counts, 0, 0)
        withI == {p \in DOMAIN inst.subsets : Contains(inst.subsets[p], first)}
        subset1WithI == IF withI = {} THEN <<>> ELSE inst.subsets[SetMin(withI)]
        subset2WithI == IF Cardinality(withI) < 2 THEN <<>>
                        ELSE inst.subsets[SetMin(withI \ {SetMin(withI)})]
        diff == symmetricDifference(subset1WithI, subset2WithI)
    IN  IF counts[first + 1] <= 1
        THEN {[i |-> 0, j |-> 0, err |-> Error("BranchingImpossible", -1)]}
        ELSE IF diff = {}
            THEN {[i |-> 0, j |-> 0, err |-> Error("branching failed", -1)]}
        ELSE {[i |-> Min(first, d), j |-> Max(first, d), err |-> NoError] :
                d \in diff}

----------------------------------------------------------------------------
(* The state machine: one caller runs SolveByBruteForce, then              *)
(* SolveByBranchAndBound, on the same triple, and then hands the validated *)
(* instance to SolveByBruteForceInternal2.                                 *)

\* a variant of the return that drops the error
ReturnedWithoutError(eval, error) == [eval |-> eval, err |-> NoError]

Returned(eval, error) == [eval |-> eval, err |-> error]

NotReturned == [eval |-> ZeroEval, err |-> Error("pending", -1)]

\* no internal function is being called directly
NoCall == [op |-> "none"]

Init ==
    /\ input \in Inputs
    /\ pc = "start"
    /\ solverInstance = ZeroInstance
    /\ makeErr = NoError
    /\ nSubsets = 0
    /\ combinations = newCombinationGenerator(0, 0)
    /\ bestSubsetsEval = ZeroEval
    /\ evaluated = 0
    /\ bruteRet = NotReturned
    /\ comb = {}
    /\ masksDone = {}
    /\ brute2Ret = NotReturned
    /\ bbIns = ZeroInstance
    /\ originalIndexMap = <<>>
    /\ toFathom = MakeQueue
    /\ incumbent = <<>>
    /\ popped = 0
    /\ dualRuns = 0
    /\ outcome = "none"
    /\ bbRet = NotReturned
    /\ callArgs = NoCall
    /\ callResult = NoCall

\* the facade SolveByBruteForce up to the first loop head of
\* SolveByBruteForceInternal
CallSolveByBruteForce ==
    /\ UNCHANGED callVars
    /\ pc = "start"
    /\ LET made == MakeInstance(input.m, input.subsets, input.costs)
       IN  /\ solverInstance' = made.ins
           /\ makeErr' = made.err
           /\ IF made.err # NoError
              THEN /\ bruteRet' = Returned(ZeroEval, made.err)
                   /\ pc' = "brute_returned"
                   /\ UNCHANGED <<nSubsets, bestSubsetsEval>>
              ELSE IF made.ins.m = 0
              THEN /\ bruteRet' = Returned(TrivialEval, NoError)
                   /\ pc' = "brute_returned"
                   /\ UNCHANGED <<nSubsets, bestSubsetsEval>>
              ELSE /\ nSubsets' = 1
                   /\ bestSubsetsEval' = ZeroEval
                   /\ pc' = "brute_for"
                   /\ UNCHANGED bruteRet
    /\ UNCHANGED <<input, combinations, evaluated, brute2Vars, bbVars>>

\* "for i := 1; i <= nSubsetsToTry; i++": enter the body, make the generator
BruteEnterSize ==
    /\ UNCHANGED callVars
    /\ pc = "brute_for"
    /\ nSubsets <= nSubsetsToTry(solverInstance)
    /\ combinations' = newCombinationGenerator(Len(solverInstance.subsets), nSubsets)
    /\ pc' = "brute_next"
    /\ UNCHANGED <<input, solverInstance, makeErr, nSubsets, bestSubsetsEval,
                   evaluated, bruteRet, brute2Vars, bbVars>>

\* "for combinations.Next() { updateBestSolutionFromSubsets(...) }": one pass
BruteSweep ==
    /\ UNCHANGED callVars
    /\ pc = "brute_next"
    /\ CombinationNext(combinations).ok
    /\ combinations' = CombinationNext(combinations).gen
    /\ bestSubsetsEval' =
           updateBestSolutionFromSubsets(solverInstance,
                                         combinations'.combination,
                                         bestSubsetsEval)
    /\ evaluated' = evaluated + 1
    /\ UNCHANGED <<input, pc, solverInstance, makeErr, nSubsets, bruteRet,
                   brute2Vars, bbVars>>

\* combinations.Next() returned false: i++
BruteSizeDone ==
    /\ UNCHANGED callVars
    /\ pc = "brute_next"
    /\ ~CombinationNext(combinations).ok
    /\ combinations' = CombinationNext(combinations).gen
    /\ nSubsets' = nSubsets + 1
    /\ pc' = "brute_for"
    /\ UNCHANGED <<input, solverInstance, makeErr, bestSubsetsEval, evaluated,
                   bruteRet, brute2Vars, bbVars>>

\* the loop is over: sort the incumbent's indices and return
BruteReturn ==
    /\ UNCHANGED callVars
    /\ pc = "brute_for"
    /\ nSubsets > nSubsetsToTry(solverInstance)
    /\ bruteRet' = Returned(BruteResult(bestSubsetsEval), NoError)
    /\ pc' = "brute_returned"
    /\ UNCHANGED <<input, solverInstance, makeErr, nSubsets, combinations,
                   bestSubsetsEval, evaluated, brute2Vars, bbVars>>

----------------------------------------------------------------------------
(* SolveByBranchAndBound. *)

\* the facade SolveByBranchAndBound up to the loop head of the driver
CallSolveByBranchAndBound ==
    /\ UNCHANGED callVars
    /\ pc = "brute_returned"
    /\ LET made == MakeInstance(input.m, input.subsets, input.costs)
       IN  /\ solverInstance' = made.ins
           /\ makeErr' = made.err
           /\ IF made.err # NoError
              THEN /\ bbRet' = Returned(ZeroEval, made.err)
                   /\ pc' = "bb_returned"
                   /\ UNCHANGED <<bbIns, originalIndexMap, toFathom>>
              ELSE IF made.ins.m = 0
              THEN /\ bbRet' = Returned(TrivialEval, NoError)
                   /\ pc' = "bb_returned"
                   /\ UNCHANGED <<bbIns, originalIndexMap, toFathom>>
              ELSE /\ \E reduced \in removeMoreExpensiveDuplicates(made.ins) :
                        /\ bbIns' = reduced.ins
                        /\ originalIndexMap' = reduced.originalIndexMap
                   /\ toFathom' = Push(MakeQueue, CreateRoot)
                   /\ pc' = "bb_loop"
                   /\ UNCHANGED bbRet
    /\ UNCHANGED <<input, bruteVars, brute2Vars, incumbent, popped, dualRuns,
                   outcome>>

\* the node the loop pops next and the queue it leaves
PoppedNode == Pop(toFathom).node

\* a variant of the discard test that drops every node once an incumbent exists
DiscardedOnceIncumbent(node) == incumbent # <<>>

\* "best != nil && best.objectiveValue <= node.LowerBound"
DiscardedByBound(node) ==
    /\ incumbent # <<>>
    /\ NoMoreThan64(Float64(incumbent[1].objectiveValue), node.LowerBound)

\* a variant of the incumbent update that takes every offered solution
TakeLatest(cost, subsetIndices) ==
    << [objectiveValue |-> cost, subsetIndices |-> subsetIndices] >>

\* the incumbent after offering it a solution of the given cost
Improve(cost, subsetIndices) ==
    IF incumbent = <<>> \/ incumbent[1].objectiveValue > cost
    THEN << [objectiveValue |-> cost, subsetIndices |-> subsetIndices] >>
    ELSE incumbent

\* an error ends the solve: "return subsetsEval{}, err"
BBFail(error) ==
    /\ bbRet' = Returned(ZeroEval, error)
    /\ pc' = "bb_returned"
    /\ outcome' = "error"
    /\ UNCHANGED incumbent

\* the node is dropped and the loop continues
BBContinue(what) ==
    /\ outcome' = what
    /\ UNCHANGED <<pc, bbRet>>

\* pop; the incumbent is at least as good as the node's lower bound
BBDiscard ==
    /\ UNCHANGED callVars
    /\ pc = "bb_loop"
    /\ Len(toFathom) > 0
    /\ DiscardedByBound(PoppedNode)
    /\ toFathom' = Pop(toFathom).queue
    /\ popped' = popped + 1
    /\ BBContinue("discarded")
    /\ UNCHANGED <<input, solverInstance, makeErr, bruteVars, brute2Vars, bbIns,
                   originalIndexMap, incumbent, dualRuns>>

\* pop; createSubInstance fails, or finds the node infeasible or a solution
BBFathomSubInstance ==
    /\ UNCHANGED callVars
    /\ pc = "bb_loop"
    /\ Len(toFathom) > 0
    /\ ~DiscardedByBound(PoppedNode)
    /\ LET created == createSubInstance(bbIns, PoppedNode)
       IN  /\ IF created.err # NoError \/ created.sub = <<>> THEN TRUE
              ELSE created.sub[1].isSolution
           /\ IF created.err # NoError THEN BBFail(created.err)
              ELSE IF created.sub = <<>>
              THEN BBContinue("infeasible") /\ UNCHANGED incumbent
              ELSE /\ incumbent' = Improve(sum(created.sub[1].ins.costs),
                                           created.sub[1].indices)
                   /\ BBContinue("solution")
    /\ toFathom' = Pop(toFathom).queue
    /\ popped' = popped + 1
    /\ UNCHANGED <<input, solverInstance, makeErr, bruteVars, brute2Vars, bbIns,
                   originalIndexMap, dualRuns>>

\* the sub-instance of a node that is neither discarded, infeasible nor a solution
SubInstanceOf(node) == createSubInstance(bbIns, node).sub[1]

NeedsDual(node) ==
    /\ ~DiscardedByBound(node)
    /\ createSubInstance(bbIns, node).err = NoError
    /\ createSubInstance(bbIns, node).sub # <<>>
    /\ ~createSubInstance(bbIns, node).sub[1].isSolution

\* "aC, err := convertSubsetsToMatrix(subInstance.subsets)" and
\* "dualResult, err := runDualIterations(aC, subInstance.costs)"
DualOnMatrix(converted, costs) ==
    IF converted.err # NoError
    THEN [result |-> ZeroDualResult, err |-> converted.err]
    ELSE runDualIterations(converted.matrix,
                           [q \in DOMAIN costs |-> Float64(costs[q])])

DualOn(subsets, costs) == DualOnMatrix(convertSubsetsToMatrix(subsets), costs)

\* The dual engine is a function of the sub-instance alone, so its results
\* on the sub-instances the searches meet are computed once.  A search is an
\* instance as the driver holds it with a node of its tree.
RootSearches ==
    UNION { LET made == MakeInstance(i.m, i.subsets, i.costs)
            IN  IF made.err # NoError \/ made.ins.m = 0 THEN {}
                ELSE { [ins |-> reduced.ins, node |-> CreateRoot] :
                         reduced \in removeMoreExpensiveDuplicates(made.ins) } :
            i \in Inputs }

\* the searches whose node reaches the dual engine when no incumbent discards it
MeetingDual(searches) ==
    { s \in searches :
        LET created == createSubInstance(s.ins, s.node)
        IN  /\ created.err = NoError
            /\ created.sub # <<>>
            /\ ~created.sub[1].isSolution }

\* the subsets and costs of a search's sub-instance
DualKey(s) ==
    LET sub == createSubInstance(s.ins, s.node).sub[1]
    IN  <<sub.ins.subsets, sub.ins.costs>>

\* the results of the dual engine on the sub-instances of the searches
DualResults(searches) ==
    [key \in {DualKey(s) : s \in MeetingDual(searches)} |->
        DualOn(key[1], key[2])]

\* the children of the searches that branch when no incumbent prunes them
ChildSearches(searches, results) ==
    UNION { LET dual == results[DualKey(s)]
                sub == createSubInstance(s.ins, s.node).sub[1]
            IN  IF dual.err # NoError \/ dual.result.provenOptimalExact THEN {}
                ELSE UNION { IF branchIndices.err # NoError THEN {}
                             ELSE { [ins |-> s.ins, node |-> child] :
                                      child \in Range(Branch(s.node,
                                                  dual.result.dualObjectiveValue,
                                                  branchIndices.i,
                                                  branchIndices.j)) } :
                             branchIndices \in findBranchingElements(sub.ins) } :
            s \in MeetingDual(searches) }

\* the dual results at the roots, and at the children of the roots
RootDualResults == DualResults(RootSearches)

ChildDualResults(searches, results) ==
    [key \in {DualKey(s) : s \in MeetingDual(ChildSearches(searches, results))}
              \ DOMAIN results |->
        DualOn(key[1], key[2])]

WithChildDualResults(searches, results) ==
    results @@ ChildDualResults(searches, results)

DualTable == WithChildDualResults(RootSearches, RootDualResults)

\* the result for the subsets and costs, from the table when it holds them
DualLookup(table, subsets, costs) ==
    IF <<subsets, costs>> \in DOMAIN table THEN table[<<subsets, costs>>]
    ELSE DualOn(subsets, costs)

DualOfSubInstance(sub) == DualLookup(DualTable, sub.ins.subsets, sub.ins.costs)

\* the dual engine on the node's sub-instance (matrix errors included)
DualOf(node) == DualOfSubInstance(SubInstanceOf(node))

\* the number of runDualIterations calls once the node has been handled:
\* the call is skipped when convertSubsetsToMatrix fails
DualRunsAfter(node) ==
    IF convertSubsetsToMatrix(SubInstanceOf(node).ins.subsets).err # NoError
    THEN dualRuns
    ELSE dualRuns + 1

\* "best != nil && best.objectiveValue <= dualResult.dualObjectiveValue"
PrunedByBound(dualResult) ==
    /\ incumbent # <<>>
    /\ NoMoreThan64(Float64(incumbent[1].objectiveValue),
                    dualResult.dualObjectiveValue)

\* what the driver does with a dual result that ends the node
FathomedBy(dual) ==
    /\ \/ dual.err # NoError
       \/ dual.result.provenOptimalExact
       \/ PrunedByBound(dual.result)
    /\ IF dual.err # NoError THEN BBFail(dual.err)
       ELSE IF dual.result.provenOptimalExact
       THEN /\ incumbent' =
                 Improve(WholeOf(dual.result.dualObjectiveValue),
                         mapIndices(dual.result.primalSolution,
                                    SubInstanceOf(PoppedNode).indices))
            /\ BBContinue("optimal")
       ELSE BBContinue("pruned") /\ UNCHANGED incumbent

\* pop; the dual engine fails, proves an exact optimum, or the bound prunes
BBFathomDual ==
    /\ UNCHANGED callVars
    /\ pc = "bb_loop"
    /\ Len(toFathom) > 0
    /\ NeedsDual(PoppedNode)
    /\ FathomedBy(DualOf(PoppedNode))
    /\ toFathom' = Pop(toFathom).queue
    /\ popped' = popped + 1
    /\ dualRuns' = DualRunsAfter(PoppedNode)
    /\ UNCHANGED <<input, solverInstance, makeErr, bruteVars, brute2Vars, bbIns,
                   originalIndexMap>>

\* "toFathom.Push(bothNode)" and "toFathom.Push(diffNode)"
PushBoth(children) ==
    toFathom' = Push(Push(Pop(toFathom).queue, children[1]), children[2])

\* what the driver does with a dual result that leaves the node open
BranchedBy(dual) ==
    /\ dual.err = NoError
    /\ ~dual.result.provenOptimalExact
    /\ ~PrunedByBound(dual.result)
    /\ \E branchIndices \in findBranchingElements(SubInstanceOf(PoppedNode).ins) :
         IF branchIndices.err # NoError
         THEN /\ BBFail(branchIndices.err)
              /\ toFathom' = Pop(toFathom).queue
         ELSE /\ PushBoth(Branch(PoppedNode, dual.result.dualObjectiveValue,
                                 branchIndices.i, branchIndices.j))
              /\ BBContinue("branched")
              /\ UNCHANGED incumbent

\* pop; branch on a pair and push both children
BBBranch ==
    /\ UNCHANGED callVars
    /\ pc = "bb_loop"
    /\ Len(toFathom) > 0
    /\ NeedsDual(PoppedNode)
    /\ BranchedBy(DualOf(PoppedNode))
    /\ popped' = popped + 1
    /\ dualRuns' = DualRunsAfter(PoppedNode)
    /\ UNCHANGED <<input, solverInstance, makeErr, bruteVars, brute2Vars, bbIns,
                   originalIndexMap>>

\* the queue is empty: return the incumbent in the caller's numbering
BBReturn ==
    /\ UNCHANGED callVars
    /\ pc = "bb_loop"
    /\ Len(toFathom) = 0
    /\ bbRet' =
         IF incumbent = <<>> \/ Len(toFathom) # 0 THEN Returned(ZeroEval, NoError)
         ELSE Returned([SubsetsIndices |-> mapIndices(incumbent[1].subsetIndices,
                                                      originalIndexMap),
                        ExactlyCovered |-> TRUE,
                        Cost |-> incumbent[1].objectiveValue,
                        Optimal |-> TRUE],
                       NoError)
    /\ pc' = "bb_returned"
    /\ UNCHANGED <<input, solverInstance, makeErr, bruteVars, brute2Vars, bbIns,
                   originalIndexMap, toFathom, incumbent, popped, dualRuns,
                   outcome>>

----------------------------------------------------------------------------
(* SolveByBruteForceInternal2 on the validated instance. *)

CallSolveByBruteForceInternal2 ==
    /\ UNCHANGED callVars
    /\ pc = "bb_returned"
    /\ makeErr = NoError
    /\ IF Len(solverInstance.subsets) > BruteLimit
       THEN /\ brute2Ret' = Returned(ZeroEval, Error("BruteForceTooLarge",
                                                     Len(solverInstance.subsets)))
            /\ pc' = "done"
            /\ UNCHANGED <<comb, bestSubsetsEval>>
       ELSE IF solverInstance.m = 0
       THEN /\ brute2Ret' = Returned(TrivialEval, NoError)
            /\ pc' = "done"
            /\ UNCHANGED <<comb, bestSubsetsEval>>
       ELSE /\ comb' = {0}
            /\ bestSubsetsEval' = ZeroEval
            /\ pc' = "brute2_loop"
            /\ UNCHANGED brute2Ret
    /\ masksDone' = {}
    /\ UNCHANGED <<input, solverInstance, makeErr, nSubsets, combinations,
                   evaluated, bruteRet, bbVars>>

\* one pass of the loop "for { update...; if comb == last { break }; comb += 1 }",
\* with the return that follows the break
Brute2Sweep ==
    /\ UNCHANGED callVars
    /\ pc = "brute2_loop"
    /\ \/ ~IncumbentSettled(solverInstance, bestSubsetsEval)
       \/ comb = LastComb(Len(solverInstance.subsets))
       \/ masksDone \subseteq 0..(MaxMaskBits - 1)
    /\ bestSubsetsEval' =
           updateBestSolutionFromSubsets2(solverInstance, comb, bestSubsetsEval)
    /\ masksDone' = PlusBits(masksDone, {0})
    /\ IF comb = LastComb(Len(solverInstance.subsets))
       THEN /\ brute2Ret' = Returned(BruteResult(bestSubsetsEval'), NoError)
            /\ pc' = "done"
            /\ UNCHANGED comb
       ELSE /\ comb' = Increment(comb)
            /\ UNCHANGED <<pc, brute2Ret>>
    /\ UNCHANGED <<input, solverInstance, makeErr, nSubsets, combinations,
                   evaluated, bruteRet, bbVars>>

\* the passes for comb, comb + 1, .. up to the one before comb = last, taken
\* together when none of them can change the incumbent: each leaves
\* bestSubsetsEval as it is and adds 1 to comb
Brute2SweepSettled ==
    /\ UNCHANGED callVars
    /\ pc = "brute2_loop"
    /\ IncumbentSettled(solverInstance, bestSubsetsEval)
    /\ comb # LastComb(Len(solverInstance.subsets))
    /\ comb' = LastComb(Len(solverInstance.subsets))
    /\ masksDone' =
           PlusBits(masksDone,
                    Minus32(LastComb(Len(solverInstance.subsets)), comb))
    /\ UNCHANGED <<input, pc, solverInstance, makeErr, nSubsets, combinations,
                   bestSubsetsEval, evaluated, bruteRet, brute2Ret, bbVars>>

Next ==
    \/ CallSolveByBruteForce
    \/ BruteEnterSize
    \/ BruteSweep
    \/ BruteSizeDone
    \/ BruteReturn
    \/ CallSolveByBranchAndBound
    \/ BBDiscard
    \/ BBFathomSubInstance
    \/ BBFathomDual
    \/ BBBranch
    \/ BBReturn
    \/ CallSolveByBruteForceInternal2
    \/ Brute2Sweep
    \/ Brute2SweepSettled

Spec == Init /\ [][Next]_vars

----------------------------------------------------------------------------
(* Direct calls of the matrix kernel: a flat sequence is made into a row   *)
(* storage matrix, converted to column storage and back; a row storage     *)
(* matrix is multiplied with a vector into a used result buffer.           *)

\* every variable of the solvers at its initial value
SolverIdle ==
    /\ input = [m |-> 0, subsets |-> <<>>, costs |-> <<>>]
    /\ solverInstance = ZeroInstance
    /\ makeErr = NoError
    /\ nSubsets = 0
    /\ combinations = newCombinationGenerator(0, 0)
    /\ bestSubsetsEval = ZeroEval
    /\ evaluated = 0
    /\ bruteRet = NotReturned
    /\ comb = {}
    /\ masksDone = {}
    /\ brute2Ret = NotReturned
    /\ bbIns = ZeroInstance
    /\ originalIndexMap = <<>>
    /\ toFathom = MakeQueue
    /\ incumbent = <<>>
    /\ popped = 0
    /\ dualRuns = 0
    /\ outcome = "none"
    /\ bbRet = NotReturned

solverVars == <<input, solverInstance, makeErr, bruteVars, brute2Vars, bbVars>>

\* the flat sequences offered to makeCompressedRowMatrix
FlatMatrices == SeqsUpTo((0..MaxMatrixIndex) \cup {sen}, MaxMatrixLen)

\* the vectors and the prior contents of result buffers
Vectors(len, values) == [1..len -> values]

MatrixCalls ==
    { [op |-> "convert", x |-> flat] : flat \in FlatMatrices }
    \cup
    UNION { { [op |-> "multiply", a |-> flat, x |-> x, result |-> buffer] :
                x \in Vectors(MaxMatrixIndex + 1,
                              {Float64(0), Float64(1), Float64(3)}),
                buffer \in Vectors(CountSen(flat), {Float64(0), Float64(5)}) } :
            flat \in {f \in FlatMatrices : checkValidMatrixIndices(f) = NoError} }

MatrixInit ==
    /\ SolverIdle
    /\ callArgs \in MatrixCalls
    /\ callResult = NoCall
    /\ pc = IF callArgs.op = "convert" THEN "matrix_make" ELSE "multiply_call"

\* aR, err := makeCompressedRowMatrix(x)
CallMakeCompressedRowMatrix ==
    /\ pc = "matrix_make"
    /\ callResult' = [made |-> makeCompressedRowMatrix(callArgs.x)]
    /\ pc' = IF callResult'.made.err # NoError THEN "matrix_rejected"
             ELSE "matrix_made"
    /\ UNCHANGED <<callArgs, solverVars>>

\* aC, err := aR.Convert()
CallConvert ==
    /\ pc = "matrix_made"
    /\ callResult' = [made |-> callResult.made,
                      converted |-> Convert(callResult.made.matrix)]
    /\ pc' = IF callResult'.converted.err # NoError THEN "matrix_failed"
             ELSE "matrix_converted"
    /\ UNCHANGED <<callArgs, solverVars>>

\* back, err := aC.Convert()
CallConvertBack ==
    /\ pc = "matrix_converted"
    /\ callResult' = [made |-> callResult.made,
                      converted |-> callResult.converted,
                      restored |-> Convert(callResult.converted.matrix)]
    /\ pc' = "matrix_restored"
    /\ UNCHANGED <<callArgs, solverVars>>

\* aR.MatrixVectorMultiply(x, result)
CallMatrixVectorMultiply ==
    /\ pc = "multiply_call"
    /\ callResult' = [result |-> MatrixVectorMultiply(callArgs.a, callArgs.x,
                                                      callArgs.result)]
    /\ pc' = "multiply_returned"
    /\ UNCHANGED <<callArgs, solverVars>>

MatrixNext ==
    \/ CallMakeCompressedRowMatrix
    \/ CallConvert
    \/ CallConvertBack
    \/ CallMatrixVectorMultiply

SpecMatrix == MatrixInit /\ [][MatrixNext]_vars

----------------------------------------------------------------------------
(* Direct use of the combination generator: one generator is made and      *)
(* Next is called until it has returned false a few times.                 *)

GeneratorInit ==
    /\ input = [m |-> 0, subsets |-> <<>>, costs |-> <<>>]
    /\ solverInstance = ZeroInstance
    /\ makeErr = NoError
    /\ nSubsets = 0
    /\ bestSubsetsEval = ZeroEval
    /\ evaluated = 0
    /\ bruteRet = NotReturned
    /\ comb = {}
    /\ masksDone = {}
    /\ brute2Ret = NotReturned
    /\ bbIns = ZeroInstance
    /\ originalIndexMap = <<>>
    /\ toFathom = MakeQueue
    /\ incumbent = <<>>
    /\ popped = 0
    /\ dualRuns = 0
    /\ outcome = "none"
    /\ bbRet = NotReturned
    /\ pc = "generator"
    /\ callArgs \in { [op |-> "newCombinationGenerator", n |-> n, k |-> k] :
                        n \in (-1)..MaxGeneratorN, k \in (-1)..MaxGeneratorN }
    /\ combinations = newCombinationGenerator(callArgs.n, callArgs.k)
    /\ callResult = [returned |-> <<>>, exposed |-> <<>>]

\* ok := combinations.Next(); the caller reads combinations.combination when ok
CallNext ==
    /\ pc = "generator"
    /\ Cardinality({q \in DOMAIN callResult.returned :
                      ~callResult.returned[q]}) < MaxExtraCalls + 1
    /\ combinations' = CombinationNext(combinations).gen
    /\ callResult' =
         [returned |-> Append(callResult.returned,
                              CombinationNext(combinations).ok),
          exposed |-> IF CombinationNext(combinations).ok
                      THEN Append(callResult.exposed, combinations'.combination)
                      ELSE callResult.exposed]
    /\ UNCHANGED <<input, pc, solverInstance, makeErr, nSubsets,
                   bestSubsetsEval, evaluated, bruteRet, brute2Vars, bbVars,
                   callArgs>>

GeneratorNext == CallNext

SpecGenerator == GeneratorInit /\ [][GeneratorNext]_vars

----------------------------------------------------------------------------
(* Direct calls of the dual engine on a column storage matrix and costs,   *)
(* followed through the passes of its loop.                                *)

\* a column of a column storage matrix: its rows in increasing order; a
\* column may be empty
DualColumns == ValidSubsets(MaxDualRows) \cup {<<>>}

\* the valid column storage matrices of up to MaxDualCols columns over the
\* rows 0..MaxDualRows-1 (at least one column is not empty), with a positive
\* cost for each column
DualCalls ==
    UNION { { [op |-> "runDualIterations",
               aC |-> Flatten(columns), costs |-> costs] :
                columns \in [1..n -> DualColumns] \ {[q \in 1..n |-> <<>>]},
                costs \in [1..n -> {Float64(c) : c \in 1..MaxCost}] } :
            n \in 1..MaxDualCols }

DualCallInit ==
    /\ SolverIdle
    /\ callArgs \in DualCalls
    /\ callResult = NoCall
    /\ pc = "dual_call"

\* runDualIterations up to the head of its loop
CallRunDualIterations ==
    /\ pc = "dual_call"
    /\ LET made == makeCompressedColumnMatrix(callArgs.aC)
           converted == Convert(callArgs.aC)
       IN  IF made.err # NoError \/ converted.err # NoError
           THEN /\ callResult' =
                     [returned |-> TRUE, exit |-> "error",
                      err |-> IF made.err # NoError THEN made.err
                              ELSE converted.err]
                /\ pc' = "dual_returned"
           ELSE /\ callResult' =
                     DualInit(callArgs.aC, converted.matrix, callArgs.costs)
                /\ pc' = "dual_loop"
    /\ UNCHANGED <<callArgs, solverVars>>

\* one pass of "for k := 0; k < n; k++", with the returns inside the body
DualIterate ==
    /\ pc = "dual_loop"
    /\ callResult.k < MaxDualIterations
    /\ callResult' = DualStep(callResult)
    /\ pc' = IF callResult'.returned THEN "dual_returned" ELSE "dual_loop"
    /\ UNCHANGED <<callArgs, solverVars>>

\* the iteration limit is reached: the return after the loop
DualReturnAtLimit ==
    /\ pc = "dual_loop"
    /\ callResult.k >= MaxDualIterations
    /\ callResult' = DualStep(callResult)
    /\ pc' = "dual_returned"
    /\ UNCHANGED <<callArgs, solverVars>>

\* lb, err := CalcScLb(aC, costs) on the same matrix and costs
CallCalcScLb ==
    /\ pc = "dual_returned"
    /\ callResult.exit # "error"
    /\ callResult' = [run |-> callResult,
                      lb |-> CalcScLb(callArgs.aC, callArgs.costs)]
    /\ pc' = "dual_bound_returned"
    /\ UNCHANGED <<callArgs, solverVars>>

DualNext ==
    \/ CallRunDualIterations
    \/ DualIterate
    \/ DualReturnAtLimit
    \/ CallCalcScLb

SpecDual == DualCallInit /\ [][DualNext]_vars

----------------------------------------------------------------------------
(* Direct calls of the two preparation steps of the branch-and-bound       *)
(* driver: removeMoreExpensiveDuplicates on a validated instance, then     *)
(* createSubInstance on the given or the reduced instance and a node.      *)

\* the nodes at most depth levels below the root that branch on pairs i <= j
\* of the elements 0..m-1 (i = j and a repeated pair make createSubInstance fail)
RECURSIVE NodesBelow(_, _)
NodesBelow(m, depth) ==
    IF depth = 0 THEN {CreateRoot}
    ELSE NodesBelow(m, depth - 1) \cup
         { Branch(parent, Float64(1), pair[1], pair[2])[side] :
             parent \in NodesBelow(m, depth - 1),
             pair \in {ij \in (0..(m - 1)) \X (0..(m - 1)) : ij[1] <= ij[2]},
             side \in 1..2 }

ReduceInit ==
    /\ SolverIdle
    /\ callArgs \in { [op |-> "removeMoreExpensiveDuplicates", ins |-> t] :
                        t \in ValidInputs }
    /\ callResult = NoCall
    /\ pc = "reduce_call"

\* ins, originalIndexMap := removeMoreExpensiveDuplicates(ins)
CallRemoveMoreExpensiveDuplicates ==
    /\ pc = "reduce_call"
    /\ \E reduced \in removeMoreExpensiveDuplicates(callArgs.ins) :
          callResult' = [reduced |-> reduced]
    /\ pc' = "reduced"
    /\ UNCHANGED <<callArgs, solverVars>>

\* subInstance, err := createSubInstance(ins, node)
CallCreateSubInstance ==
    /\ pc = "reduced"
    /\ \E inst \in {callArgs.ins, callResult.reduced.ins},
          node \in NodesBelow(callArgs.ins.m, MaxNodeDepth) :
          callResult' = [reduced |-> callResult.reduced,
                         inst |-> inst,
                         node |-> node,
                         created |-> createSubInstance(inst, node)]
    /\ pc' = "created"
    /\ UNCHANGED <<callArgs, solverVars>>

ReduceNext ==
    \/ CallRemoveMoreExpensiveDuplicates
    \/ CallCreateSubInstance

SpecReduce == ReduceInit /\ [][ReduceNext]_vars

----------------------------------------------------------------------------
(* LowerBoundPriorityQueue used on its own: the queue is toFathom, the     *)
(* nodes handed to Push are kept in callArgs and the nodes returned by Pop *)
(* in callResult.  Every pushed node is a distinct object: node number k   *)
(* is the both-branch child of the root on the pair (k, k).                *)

QueueNode(k, lowerBound) == Branch(CreateRoot, Float64(lowerBound), k, k)[1]

QueueInit ==
    /\ SolverIdle
    /\ callArgs = [op |-> "queue", pushed |-> <<>>]
    /\ callResult = [returned |-> <<>>, last |-> "MakeQueue", len |-> 0]
    /\ pc = "queue"

queueOthers ==
    <<input, solverInstance, makeErr, bruteVars, brute2Vars, bbIns,
      originalIndexMap, incumbent, popped, dualRuns, outcome, bbRet, pc>>

\* q.Push(node); q.Len()
CallPush ==
    /\ pc = "queue"
    /\ Len(callArgs.pushed) < MaxPushes
    /\ \E lowerBound \in 0..MaxLowerBound :
          LET node == QueueNode(Len(callArgs.pushed), lowerBound)
          IN  /\ toFathom' = Push(toFathom, node)
              /\ callArgs' = [callArgs EXCEPT !.pushed = Append(@, node)]
    /\ callResult' = [callResult EXCEPT !.last = "Push",
                                        !.len = Len(toFathom')]
    /\ UNCHANGED queueOthers

\* if q.Len() > 0 { node := q.Pop() }; q.Len()
CallPop ==
    /\ pc = "queue"
    /\ Len(toFathom) > 0
    /\ toFathom' = Pop(toFathom).queue
    /\ callResult' = [returned |-> Append(callResult.returned,
                                          Pop(toFathom).node),
                      last |-> "Pop",
                      len |-> Len(toFathom')]
    /\ UNCHANGED <<callArgs, queueOthers>>

QueueNext ==
    \/ CallPush
    \/ CallPop

SpecQueue == QueueInit /\ [][QueueNext]_vars

----------------------------------------------------------------------------
(* The branching step used on its own: as in the driver, an instance is    *)
(* reduced, the sub-instance of a node is created and, when it is neither  *)
(* nil nor a solution, findBranchingElements picks the pair, Branch makes  *)
(* the two children and createSubInstance is applied to each child.        *)

BranchInit ==
    /\ SolverIdle
    /\ \E t \in ValidInputs :
          /\ t.m > 0
          /\ \E n \in NodesBelow(t.m, MaxBranchDepth) :
                callArgs = [op |-> "findBranchingElements", ins |-> t, node |-> n]
    /\ callResult = NoCall
    /\ pc = "branch_call"

\* ins, originalIndexMap := removeMoreExpensiveDuplicates(ins);
\* subInstance, err := createSubInstance(ins, node)
CallReduceAndCreate ==
    /\ pc = "branch_call"
    /\ \E reduced \in removeMoreExpensiveDuplicates(callArgs.ins) :
          LET created == createSubInstance(reduced.ins, callArgs.node)
          IN  /\ callResult' = [reduced |-> reduced, created |-> created]
              /\ pc' = IF created.err # NoError THEN "branch_failed"
                       ELSE IF created.sub = <<>> THEN "branch_infeasible"
                       ELSE IF created.sub[1].isSolution THEN "branch_solution"
                       ELSE "branch_ready"
    /\ UNCHANGED <<callArgs, solverVars>>

\* branchIndices, err := findBranchingElements(subInstance.ins);
\* bothNode, diffNode := node.Branch(lowerBound, branchIndices.i, branchIndices.j),
\* followed by createSubInstance for each child
CallFindBranchingElements ==
    /\ pc = "branch_ready"
    /\ \E branchIndices \in
            findBranchingElements(callResult.created.sub[1].ins) :
          LET children ==
                  IF branchIndices.err # NoError THEN <<>>
                  ELSE Branch(callArgs.node, Float64(1),
                              branchIndices.i, branchIndices.j)
          IN  callResult' =
                  [reduced |-> callResult.reduced,
                   created |-> callResult.created,
                   branchIndices |-> branchIndices,
                   children |-> children,
                   childCreated |->
                       [c \in DOMAIN children |->
                           createSubInstance(callResult.reduced.ins,
                                             children[c])]]
    /\ pc' = "branch_found"
    /\ UNCHANGED <<callArgs, solverVars>>

BranchNext ==
    \/ CallReduceAndCreate
    \/ CallFindBranchingElements

SpecBranch == BranchInit /\ [][BranchNext]_vars

----------------------------------------------------------------------------
(* Reference notions the properties are stated against.  They are defined  *)
(* on the caller's triple and share nothing with the solvers.              *)

\* the total costs of the exact covers of the element set E by the subsets
\* (each cover is built from the subset containing the least uncovered element)
RECURSIVE CoverCosts(_, _, _)
CoverCosts(subsets, costs, E) ==
    IF E = {} THEN {0}
    ELSE UNION { { costs[j] + c :
                     c \in CoverCosts(subsets, costs, E \ Range(subsets[j])) } :
                 j \in { k \in DOMAIN subsets :
                           /\ SetMin(E) \in Range(subsets[k])
                           /\ Range(subsets[k]) \subseteq E } }

\* the costs of the exact covers of the caller's instance
InputCoverCosts == CoverCosts(input.subsets, input.costs, 0..(input.m - 1))

\* the conditions of a well-formed triple with m > 0
WellFormed(t) ==
    /\ \A k \in DOMAIN t.subsets :
          /\ Len(t.subsets[k]) > 0
          /\ \A p \in DOMAIN t.subsets[k] :
                t.subsets[k][p] >= 0 /\ t.subsets[k][p] < t.m
          /\ \A p, q \in DOMAIN t.subsets[k] :
                p < q => t.subsets[k][p] < t.subsets[k][q]
    /\ Len(t.subsets) = Len(t.costs)
    /\ \A k \in DOMAIN t.costs : t.costs[k] > 0

\* the caller's triple is the empty instance
EmptyInput == input = [m |-> 0, subsets |-> <<>>, costs |-> <<>>]

\* validation has run and accepted the caller's triple
Validated == pc # "start" /\ makeErr = NoError

\* a returned pair is the zero evaluation
IsZeroEval(eval) ==
    /\ eval.SubsetsIndices = <<>>
    /\ ~eval.ExactlyCovered
    /\ eval.Cost = 0
    /\ ~eval.Optimal

\* a returned pair is a proven optimum of the caller's instance, or the zero
\* evaluation exactly when the instance has no exact cover
OptimumOrZero(ret) ==
    /\ ret.err = NoError
    /\ IF InputCoverCosts = {} THEN IsZeroEval(ret.eval)
       ELSE /\ ret.eval.ExactlyCovered
            /\ ret.eval.Optimal
            /\ ret.eval.Cost = SetMin(InputCoverCosts)

\* how often the subsets named by indices (0-based, caller's numbering)
\* contain element e
TimesCovered(indices, e) ==
    Cardinality({k \in DOMAIN indices :
                   /\ indices[k] + 1 \in DOMAIN input.subsets
                   /\ e \in Range(input.subsets[indices[k] + 1])})

\* the flags, indices and cost of an evaluation agree with the caller's triple
ConsistentEval(eval) ==
    /\ eval.ExactlyCovered =>
          /\ \A k \in DOMAIN eval.SubsetsIndices :
                eval.SubsetsIndices[k] + 1 \in DOMAIN input.subsets
          /\ \A e \in 0..(input.m - 1) : TimesCovered(eval.SubsetsIndices, e) = 1
          /\ eval.Cost = SeqSum([k \in DOMAIN eval.SubsetsIndices |->
                                   input.costs[eval.SubsetsIndices[k] + 1]])
          /\ eval.Optimal
    /\ eval.Optimal => eval.ExactlyCovered

\* indices are strictly increasing and name subsets of the caller's list
IncreasingInRange(indices) ==
    /\ \A k \in DOMAIN indices :
          indices[k] >= 0 /\ indices[k] < Len(input.subsets)
    /\ \A p, q \in DOMAIN indices : p < q => indices[p] < indices[q]

----------------------------------------------------------------------------
(* Properties. *)

\* C1: on every validated instance with m > 0, SolveByBranchAndBound returns
\* a nil error and either an evaluation with ExactlyCovered, Optimal and the
\* minimum cost over all exact covers, or the zero evaluation, and the zero
\* evaluation exactly when the instance has no exact cover.
C1_BranchAndBoundOptimum ==
    (bbRet # NotReturned /\ makeErr = NoError /\ input.m > 0)
        => OptimumOrZero(bbRet)

\* a search over several nodes that ended with a proven optimum
C1_Witness ==
    /\ bbRet # NotReturned /\ makeErr = NoError /\ input.m > 0
    /\ popped >= 3
    /\ bbRet.eval.Optimal
    /\ bbRet.eval.Cost = SetMin(InputCoverCosts)
    /\ Cardinality(InputCoverCosts) >= 2

\* C2: on every validated instance within the size limit, the brute-force
\* solvers (the facade's combination solver and the bitmask solver) return a
\* nil error and either the minimum-cost exact cover with ExactlyCovered and
\* Optimal, or the zero evaluation exactly when no exact cover exists.
C2_BruteForceOptimum ==
    /\ (bruteRet # NotReturned /\ makeErr = NoError
            /\ Len(input.subsets) <= BruteLimit /\ input.m > 0)
          => OptimumOrZero(bruteRet)
    /\ (brute2Ret # NotReturned /\ Len(input.subsets) <= BruteLimit
            /\ input.m > 0)
          => OptimumOrZero(brute2Ret)

\* the combination solver returned an optimum of two or more subsets that is
\* cheaper than another exact cover, after pruning some selections
C2_Witness ==
    /\ bruteRet # NotReturned /\ makeErr = NoError /\ input.m > 0
    /\ bruteRet.eval.Optimal
    /\ Len(bruteRet.eval.SubsetsIndices) >= 2
    /\ Cardinality(InputCoverCosts) >= 2
    /\ bruteRet.eval.Cost = SetMin(InputCoverCosts)

\* C3: on every validated instance, SolveByBruteForce and
\* SolveByBranchAndBound either both return the zero evaluation or both
\* return Optimal with equal Cost.
C3_SolversAgreeOnCost ==
    (bruteRet # NotReturned /\ bbRet # NotReturned /\ makeErr = NoError)
        => \/ IsZeroEval(bruteRet.eval) /\ IsZeroEval(bbRet.eval)
           \/ /\ bruteRet.eval.Optimal
              /\ bbRet.eval.Optimal
              /\ bruteRet.eval.Cost = bbRet.eval.Cost

\* both solvers returned the same optimal cost for an instance with exact
\* covers of different costs, the one after sweeping several selections and
\* the other after fathoming several nodes
C3_Witness ==
    /\ pc = "bb_returned" /\ makeErr = NoError
    /\ bruteRet.eval.Optimal /\ bbRet.eval.Optimal
    /\ bruteRet.eval.Cost = bbRet.eval.Cost
    /\ Cardinality(InputCoverCosts) >= 2
    /\ evaluated >= 4
    /\ popped >= 3

\* C4: in every evaluation returned without error by either solver,
\* ExactlyCovered implies that the named subsets of the caller's list are
\* pairwise disjoint with union 0..m-1, that Cost is the sum of their
\* original costs and that Optimal is set; Optimal implies ExactlyCovered.
C4_EvaluationConsistent ==
    /\ (bruteRet # NotReturned /\ bruteRet.err = NoError)
          => ConsistentEval(bruteRet.eval)
    /\ (bbRet # NotReturned /\ bbRet.err = NoError)
          => ConsistentEval(bbRet.eval)
    /\ (brute2Ret # NotReturned /\ brute2Ret.err = NoError)
          => ConsistentEval(brute2Ret.eval)

\* branch and bound returned a cover of several subsets of an instance whose
\* duplicate reduction renumbered the subsets
C4_Witness ==
    /\ bbRet # NotReturned /\ bbRet.err = NoError
    /\ bbRet.eval.ExactlyCovered
    /\ Len(bbRet.eval.SubsetsIndices) >= 2
    /\ Len(bbIns.subsets) < Len(input.subsets)
    /\ \E k \in DOMAIN originalIndexMap : originalIndexMap[k] # k - 1

\* C5: the SubsetsIndices of every successful solve by either solver are
\* strictly increasing (hence distinct) and lie in [0, n) of the caller's
\* list; in particular the branch-and-bound result is sorted ascending.
C5_IndicesSortedInRange ==
    /\ (bruteRet # NotReturned /\ bruteRet.err = NoError)
          => IncreasingInRange(bruteRet.eval.SubsetsIndices)
    /\ (bbRet # NotReturned /\ bbRet.err = NoError)
          => IncreasingInRange(bbRet.eval.SubsetsIndices)

\* C6: for the empty instance validation succeeds and both solvers return,
\* without error and without enumeration or search, the evaluation with
\* ExactlyCovered, Optimal, Cost 0 and no indices.
C6_EmptyInstanceTrivial ==
    (EmptyInput /\ pc # "start")
        => /\ makeErr = NoError
           /\ solverInstance = [m |-> 0, subsets |-> <<>>, costs |-> <<>>]
           /\ bruteRet = [eval |-> [SubsetsIndices |-> <<>>,
                                    ExactlyCovered |-> TRUE, Cost |-> 0,
                                    Optimal |-> TRUE],
                          err |-> NoError]
           /\ pc \notin {"brute_for", "brute_next", "bb_loop", "brute2_loop"}
           /\ evaluated = 0
           /\ popped = 0
           /\ toFathom = <<>>
           /\ pc \in {"bb_returned", "done"}
                 => bbRet = [eval |-> [SubsetsIndices |-> <<>>,
                                       ExactlyCovered |-> TRUE, Cost |-> 0,
                                       Optimal |-> TRUE],
                             err |-> NoError]
           /\ pc = "done"
                 => brute2Ret = [eval |-> [SubsetsIndices |-> <<>>,
                                           ExactlyCovered |-> TRUE, Cost |-> 0,
                                           Optimal |-> TRUE],
                                 err |-> NoError]

\* the empty instance after branch and bound returned its evaluation
C6_Witness ==
    /\ EmptyInput
    /\ pc = "bb_returned"
    /\ bruteRet.eval.Optimal
    /\ bbRet.eval.Optimal
    /\ popped = 0

\* C7: for m > 0, MakeInstance succeeds if and only if every subset is
\* non-empty, in range and strictly increasing, the two lengths agree and
\* every cost is positive; on success the instance is the supplied triple, on
\* failure it is the zero instance together with an error.
C7_MakeInstanceAcceptsWellFormed ==
    (pc # "start" /\ input.m > 0)
        => /\ (makeErr = NoError) <=> WellFormed(input)
           /\ makeErr = NoError => solverInstance = input
           /\ makeErr # NoError => solverInstance = ZeroInstance

\* a triple rejected only because a subset repeats an entry
C7_Witness ==
    /\ pc # "start" /\ input.m > 0
    /\ makeErr.kind = "SubsetNotSorted"
    /\ solverInstance = ZeroInstance
    /\ \A k \in DOMAIN input.subsets :
          \A p \in 1..(Len(input.subsets[k]) - 1) :
              input.subsets[k][p] <= input.subsets[k][p + 1]
    /\ Len(input.subsets) = Len(input.costs)
    /\ \A k \in DOMAIN input.costs : input.costs[k] > 0

\* C8: MakeInstance with m = 0 returns an error whenever subsets or costs is
\* non-empty, and succeeds only when both are empty.
C8_EmptyInstanceNeedsBothEmpty ==
    (pc # "start" /\ input.m = 0)
        => ((makeErr = NoError)
                <=> (input.subsets = <<>> /\ input.costs = <<>>))

\* C9: when validation fails, both facades return the zero evaluation with
\* exactly the validation error and never start the solver; on a valid
\* instance the absence of an exact cover is never reported as an error.
C9_ValidationErrorsPropagate ==
    /\ (pc # "start"
            /\ MakeInstance(input.m, input.subsets, input.costs).err # NoError)
          => /\ bruteRet.err
                   = MakeInstance(input.m, input.subsets, input.costs).err
             /\ IsZeroEval(bruteRet.eval)
             /\ pc \in {"brute_returned", "bb_returned"}
             /\ evaluated = 0 /\ popped = 0 /\ toFathom = <<>>
             /\ pc = "bb_returned"
                   => /\ bbRet.err
                            = MakeInstance(input.m, input.subsets, input.costs).err
                      /\ IsZeroEval(bbRet.eval)
    /\ (Validated /\ InputCoverCosts = {})
          => /\ bruteRet # NotReturned => bruteRet.err = NoError
             /\ bbRet # NotReturned => bbRet.err = NoError

\* branch and bound returned the validation error of a rejected triple
C9_Witness ==
    /\ pc = "bb_returned"
    /\ makeErr.kind = "CostsSubsetsLengthMismatch"
    /\ bbRet.err = makeErr
    /\ bruteRet.err = makeErr
    /\ popped = 0

\* C10: the brute-force solver on a validated instance with more than 32
\* subsets returns an explicit error and the zero evaluation without
\* enumerating any selection; with n <= 32 it never returns this error.
C10_BruteForceRejectsLargeInstances ==
    (bruteRet # NotReturned /\ makeErr = NoError)
        => IF Len(input.subsets) > BruteLimit
           THEN /\ bruteRet.err.kind = "BruteForceTooLarge"
                /\ IsZeroEval(bruteRet.eval)
                /\ evaluated = 0
           ELSE bruteRet.err.kind # "BruteForceTooLarge"

\* the 0-based stripe that position p of the flat matrix x lies in
StripeAt(x, p) == Cardinality({q \in 1..(p - 1) : x[q] = sen})

\* how often index c occurs in stripe r of the flat matrix x
Occurrences(x, r, c) ==
    Cardinality({p \in DOMAIN x : x[p] = c /\ StripeAt(x, p) = r})

\* the indices of a flat matrix
IndicesOf(x) == {x[p] : p \in {q \in DOMAIN x : x[q] # sen}}

\* t is the transpose of x with every stripe in ascending order
IsTransposeOf(t, x) ==
    /\ \A r \in 0..Len(x), c \in 0..Len(x) :
          Occurrences(t, c, r) = Occurrences(x, r, c)
    /\ IndicesOf(t) \subseteq 0..Len(x)
    /\ IndicesOf(x) \subseteq 0..Len(x)
    /\ \A p \in 1..(Len(t) - 1) :
          (t[p] # sen /\ t[p + 1] # sen) => t[p] <= t[p + 1]

\* the sum of x[c] over the entries c of stripe r of a
RECURSIVE StripeSum(_, _, _, _)
StripeSum(a, x, r, p) ==
    IF p > Len(a) THEN 0
    ELSE (IF a[p] # sen /\ StripeAt(a, p) = r THEN WholeOf(x[a[p] + 1]) ELSE 0)
             + StripeSum(a, x, r, p + 1)

\* C11: for every matrix accepted by the validity check, empty stripes at the
\* end or in the middle included, transpose(transpose(M)) succeeds and equals
\* M entry for entry.
C11_TransposeTwiceIsIdentity ==
    pc = "matrix_restored"
        => /\ callResult.restored.err = NoError
           /\ callResult.restored.matrix = callArgs.x

\* C12: for every valid row-storage matrix with s stripes, every vector long
\* enough and every result buffer of length s whatever it held before,
\* multiply leaves in slot r the sum of x[c] over the entries c of stripe r.
C12_MultiplyIsDenseProduct ==
    pc = "multiply_returned"
        => /\ Len(callResult.result) = CountSen(callArgs.a)
           /\ \A r \in 1..CountSen(callArgs.a) :
                 callResult.result[r]
                     = Float64(StripeSum(callArgs.a, callArgs.x, r - 1, 1))

\* a product into a buffer full of old values, of a matrix with an empty
\* stripe and a stripe of several entries
C12_Witness ==
    /\ pc = "multiply_returned"
    /\ \A r \in DOMAIN callArgs.result : callArgs.result[r] # Float64(0)
    /\ \E p \in 1..(Len(callArgs.a) - 1) :
          callArgs.a[p] = sen /\ callArgs.a[p + 1] = sen
    /\ \E r \in DOMAIN callResult.result :
          LessThan64(Float64(3), callResult.result[r])

\* C13: for every matrix accepted by the validity check, transpose returns no
\* error, its output passes the validity check, and index r occurs in output
\* stripe c as often as c occurs in input stripe r, each output stripe being
\* in ascending order.
C13_TransposeIsCorrect ==
    pc \in {"matrix_converted", "matrix_failed", "matrix_restored"}
        => /\ callResult.converted.err = NoError
           /\ checkValidMatrixIndices(callResult.converted.matrix) = NoError
           /\ IsTransposeOf(callResult.converted.matrix, callArgs.x)

\* the transpose of a matrix in which an empty stripe precedes a non-empty one
C13_Witness ==
    /\ pc = "matrix_converted"
    /\ \E p \in 1..(Len(callArgs.x) - 2) :
          /\ callArgs.x[p] = sen /\ callArgs.x[p + 1] = sen
          /\ callArgs.x[p + 2] # sen
    /\ Len(callResult.converted.matrix) >= 3

\* the number of k-element subsets of an n-element set
Binomial(n, k) ==
    Cardinality({S \in SUBSET (0..(n - 1)) : Cardinality(S) = k})

\* a comes before b in lexicographic order (tuples of equal length)
LexLess(a, b) ==
    \E q \in DOMAIN a :
        /\ a[q] < b[q]
        /\ \A r \in 1..(q - 1) : a[r] = b[r]

\* n and k for which the generator has combinations
GeneratorHasCombinations == callArgs.n >= 1 /\ callArgs.k >= 1 /\ callArgs.k <= callArgs.n

\* C14: for n >= 1 and 1 <= k <= n, Next returns true exactly C(n, k) times,
\* exposing the strictly increasing k-tuples over [0, n) once each in
\* lexicographic order from (0..k-1) to (n-k..n-1), and false on every later
\* call; for n < 1, k < 1 or n < k the first call returns false and nothing is
\* exposed.
C14_GeneratorEnumeratesCombinations ==
    pc = "generator"
        => /\ \A q \in 1..(Len(callResult.returned) - 1) :
                 ~callResult.returned[q] => ~callResult.returned[q + 1]
           /\ \A q \in DOMAIN callResult.exposed :
                 /\ Len(callResult.exposed[q]) = callArgs.k
                 /\ \A r \in 1..callArgs.k :
                       /\ callResult.exposed[q][r] >= 0
                       /\ callResult.exposed[q][r] < callArgs.n
                       /\ r > 1 => callResult.exposed[q][r - 1]
                                      < callResult.exposed[q][r]
           /\ \A q \in 1..(Len(callResult.exposed) - 1) :
                 LexLess(callResult.exposed[q], callResult.exposed[q + 1])
           /\ callResult.exposed # <<>>
                 => callResult.exposed[1] = [r \in 1..callArgs.k |-> r - 1]
           /\ (\E q \in DOMAIN callResult.returned : ~callResult.returned[q])
                 => IF GeneratorHasCombinations
                    THEN /\ Len(callResult.exposed)
                               = Binomial(callArgs.n, callArgs.k)
                         /\ callResult.exposed[Len(callResult.exposed)]
                               = [r \in 1..callArgs.k |->
                                     callArgs.n - callArgs.k + r - 1]
                    ELSE /\ callResult.exposed = <<>>
                         /\ combinations.combination = <<>>
           /\ (callResult.returned # <<>> /\ GeneratorHasCombinations)
                 => callResult.returned[1]

\* all ten 3-of-5 combinations were exposed and Next then returned false twice
C14_Witness ==
    /\ pc = "generator"
    /\ callArgs.n = 5 /\ callArgs.k = 3
    /\ Len(callResult.exposed) = 10
    /\ Len(callResult.returned) = 12
    /\ ~callResult.returned[11] /\ ~callResult.returned[12]

\* how often row r (0-based) occurs in column q (1-based) of the column
\* storage matrix aC
InColumn(aC, q, r) == Occurrences(aC, q - 1, r)

\* the rows of a column storage matrix
RowsOf(aC) == 0..SetMax(IndicesOf(aC))

\* twice the cost of the cheapest x with entries in {0, 1/2, 1} that covers
\* every row at least once: the candidates, as vectors of doubled entries.
\* With at most three rows every vertex of the covering polytope is of this
\* form, so the least of these costs is the optimum of the linear relaxation.
HalfCovers(aC) ==
    { y \in [1..CountSen(aC) -> 0..2] :
        \A r \in RowsOf(aC) :
            SeqSum([q \in 1..CountSen(aC) |-> y[q] * InColumn(aC, q, r)]) >= 2 }

DoubledCost(costs, y) ==
    SeqSum([q \in DOMAIN costs |-> WholeOf(costs[q]) * y[q]])

\* v + v <= float64(c) for a float64 v and a whole number c; v + v is exact
TwiceAtMost(v, c) == NoMoreThan64(Plus64(v, v), Float64(c))

\* the dual engine has returned a result for the direct call
DualReturned == pc = "dual_returned" /\ callResult.exit # "error"

\* every column of the column storage matrix aC holds at least one row, as
\* every column that convertSubsetsToMatrix builds from the non-empty
\* subsets of an instance does
NoEmptyColumn(aC) ==
    /\ aC[1] # sen
    /\ \A p \in 1..(Len(aC) - 1) : aC[p] = sen => aC[p + 1] # sen

\* the value the dual engine has returned is at most the cost of every
\* cover, and CalcScLb returns that value with a nil error
DualIsLowerBound ==
    /\ DualReturned
          => /\ callResult.exit \in {"limit", "subgradient", "status"}
             /\ \A y \in HalfCovers(callArgs.aC) :
                   TwiceAtMost(callResult.result.dualObjectiveValue,
                               DoubledCost(callArgs.costs, y))
    /\ pc = "dual_bound_returned"
          => /\ callResult.lb.err = NoError
             /\ callResult.lb.lb = callResult.run.result.dualObjectiveValue

\* C15 as stated: for every valid column storage matrix and positive costs,
\* the dualObjectiveValue returned by runDualIterations and CalcScLb is at
\* most the optimal cost of covering every row at least once, on every
\* return path.  A matrix with an empty column is valid and refutes it.
C15_DualIsLowerBound == DualIsLowerBound

\* C15, amended: for every valid column storage matrix without an empty
\* column and positive costs, the dualObjectiveValue returned by
\* runDualIterations and CalcScLb is at most the optimal cost of covering
\* every row at least once, on every return path.
C15_DualIsLowerBoundWithoutEmptyColumn ==
    NoEmptyColumn(callArgs.aC) => DualIsLowerBound

\* CalcScLb returned, after a return at the iteration limit, a positive
\* bound below the cost of every cover, for a matrix without an empty column
\* that has covers
C15_Witness ==
    /\ pc = "dual_bound_returned"
    /\ NoEmptyColumn(callArgs.aC)
    /\ callResult.run.exit = "limit"
    /\ LessThan64(Float64(0), callResult.lb.lb)
    /\ HalfCovers(callArgs.aC) # {}
    /\ ~callResult.run.result.provenOptimalExact

\* how often the columns of a primal solution (0-based indices) cover row r
PrimalCoverage(aC, primalSolution, r) ==
    SeqSum([q \in DOMAIN primalSolution |->
               InColumn(aC, primalSolution[q] + 1, r)])

\* a returned result with provenOptimalExact has a primalSolution covering
\* every row exactly once, a dualObjectiveValue equal to the sum of the
\* selected columns' costs and notCoveredExactly = -1; any other returned
\* result names the largest row whose coverage differs from 1
ProvenOptimalIsExactCover ==
    DualReturned
        => IF callResult.result.provenOptimalExact
           THEN /\ \A r \in RowsOf(callArgs.aC) :
                      PrimalCoverage(callArgs.aC,
                                     callResult.result.primalSolution, r) = 1
                /\ callResult.result.dualObjectiveValue
                      = Float64(SeqSum(
                            [q \in DOMAIN callResult.result.primalSolution |->
                                WholeOf(callArgs.costs[
                                    callResult.result.primalSolution[q] + 1])]))
                /\ callResult.result.notCoveredExactly = -1
           ELSE /\ callResult.result.notCoveredExactly \in RowsOf(callArgs.aC)
                /\ PrimalCoverage(callArgs.aC, callResult.result.primalSolution,
                                  callResult.result.notCoveredExactly) # 1
                /\ \A r \in RowsOf(callArgs.aC) :
                      r > callResult.result.notCoveredExactly
                          => PrimalCoverage(callArgs.aC,
                                            callResult.result.primalSolution,
                                            r) = 1

\* C16 as stated: when the dual engine returns provenOptimalExact, its
\* primalSolution covers every row exactly once, dualObjectiveValue is the
\* sum of the selected columns' costs and notCoveredExactly is -1; otherwise
\* notCoveredExactly is the largest row whose coverage differs from 1.  A
\* matrix with an empty column refutes the equality of the sum.
C16_ProvenOptimalIsExactCover == ProvenOptimalIsExactCover

\* C16, amended: when the dual engine returns provenOptimalExact for a
\* matrix without an empty column, its primalSolution covers every row
\* exactly once, dualObjectiveValue is the sum of the selected columns'
\* costs and notCoveredExactly is -1; otherwise notCoveredExactly is the
\* largest row whose coverage differs from 1.
C16_ProvenOptimalIsExactCoverWithoutEmptyColumn ==
    NoEmptyColumn(callArgs.aC) => ProvenOptimalIsExactCover

\* a proven optimum of two columns of a matrix without an empty column,
\* found although a dearer cover exists
C16_Witness ==
    /\ DualReturned
    /\ NoEmptyColumn(callArgs.aC)
    /\ callResult.result.provenOptimalExact
    /\ Len(callResult.result.primalSolution) = 2
    /\ CountSen(callArgs.aC) = 3
    /\ callResult.result.notCoveredExactly = -1

\* a is before b in lexicographic order, or a proper prefix of b
SubsetLess(a, b) ==
    \/ \E q \in (DOMAIN a) \cap (DOMAIN b) :
          a[q] < b[q] /\ \A r \in 1..(q - 1) : a[r] = b[r]
    \/ Len(a) < Len(b) /\ \A r \in DOMAIN a : a[r] = b[r]

\* C17: removeMoreExpensiveDuplicates returns the distinct subsets of the
\* input in ascending lexicographic order, each with the least cost among its
\* copies, and an originalIndexMap that names for every kept subset an input
\* position holding that subset and that cost; the input is not modified.
C17_DuplicatesReduced ==
    pc \in {"reduced", "created"}
        => LET given == callArgs.ins
               kept == callResult.reduced.ins
               indexMap == callResult.reduced.originalIndexMap
           IN  /\ kept.m = given.m
               /\ Range(kept.subsets) = Range(given.subsets)
               /\ Len(kept.costs) = Len(kept.subsets)
               /\ Len(indexMap) = Len(kept.subsets)
               /\ \A k \in 1..(Len(kept.subsets) - 1) :
                     SubsetLess(kept.subsets[k], kept.subsets[k + 1])
               /\ \A k \in DOMAIN kept.subsets :
                     /\ indexMap[k] + 1 \in DOMAIN given.subsets
                     /\ given.subsets[indexMap[k] + 1] = kept.subsets[k]
                     /\ given.costs[indexMap[k] + 1] = kept.costs[k]
                     /\ \A q \in DOMAIN given.subsets :
                           given.subsets[q] = kept.subsets[k]
                               => kept.costs[k] <= given.costs[q]
               /\ callArgs.ins \in ValidInputs

\* a reduction that dropped a dearer copy standing before the cheaper one
\* and reordered the remaining subsets
C17_Witness ==
    /\ pc = "reduced"
    /\ Len(callResult.reduced.ins.subsets) = 2
    /\ Len(callArgs.ins.subsets) = 3
    /\ callArgs.ins.subsets[1] = callArgs.ins.subsets[2]
    /\ callArgs.ins.costs[1] > callArgs.ins.costs[2]
    /\ callResult.reduced.originalIndexMap = <<2, 1>>

\* the subset satisfies every constraint on the chain from node to the root
RECURSIVE SatisfiesChain(_, _)
SatisfiesChain(subset, node) ==
    IF node.Kind = Root THEN TRUE
    ELSE /\ IF node.Kind = BothBranch
            THEN (node.I \in Range(subset)) <=> (node.J \in Range(subset))
            ELSE ~(node.I \in Range(subset) /\ node.J \in Range(subset))
         /\ SatisfiesChain(subset, node.Parent[1])

\* the input positions (0-based) of the subsets that satisfy the chain
KeptPositions(inst, node) ==
    {q - 1 : q \in {r \in DOMAIN inst.subsets :
                       SatisfiesChain(inst.subsets[r], node)}}

\* createSubInstance returned a sub-instance for the direct call
SubInstanceCreated ==
    /\ pc = "created"
    /\ callResult.created.err = NoError
    /\ callResult.created.sub # <<>>

\* C18: a sub-instance returned by createSubInstance holds exactly the
\* subsets that satisfy every constraint on the node's ancestor chain, in
\* their original order, with costs aligned and indices[k] the input position
\* of the k-th kept subset; for the root every subset is kept.
C18_SubInstanceKeepsSatisfyingSubsets ==
    SubInstanceCreated
        => LET inst == callResult.inst
               sub == callResult.created.sub[1]
           IN  /\ sub.ins.m = inst.m
               /\ sub.indices = SortedSeq(KeptPositions(inst, callResult.node))
               /\ Len(sub.ins.subsets) = Len(sub.indices)
               /\ Len(sub.ins.costs) = Len(sub.indices)
               /\ \A k \in DOMAIN sub.indices :
                     /\ sub.ins.subsets[k] = inst.subsets[sub.indices[k] + 1]
                     /\ sub.ins.costs[k] = inst.costs[sub.indices[k] + 1]
               /\ callResult.node.Kind = Root => sub.ins = inst

\* a sub-instance two levels below the root, under a both-branch and a
\* diff-branch constraint, that keeps some subsets and drops others
C18_Witness ==
    /\ SubInstanceCreated
    /\ callResult.node.Kind = DiffBranch
    /\ callResult.node.Parent[1].Kind = BothBranch
    /\ Len(callResult.created.sub[1].indices) = 2
    /\ Len(callResult.inst.subsets) = 3
    /\ callResult.created.sub[1].indices[1] > 0

\* how many of the kept subsets contain element e
KeptCoverage(inst, node, e) ==
    Cardinality({q \in KeptPositions(inst, node) :
                   e \in Range(inst.subsets[q + 1])})

\* the sets of positions of a sub-instance that are exact covers of it
ExactCoversOf(ins) ==
    {S \in SUBSET (DOMAIN ins.subsets) :
        \A e \in 0..(ins.m - 1) :
            Cardinality({q \in S : e \in Range(ins.subsets[q])}) = 1}

\* C19: createSubInstance returns nil without error if and only if some
\* element is in no kept subset; otherwise isSolution holds if and only if
\* every element is in exactly one kept subset, and then the kept subsets are
\* the only exact cover of the sub-instance.
C19_InfeasibleOrSolution ==
    (pc = "created" /\ callResult.created.err = NoError)
        => LET inst == callResult.inst
               node == callResult.node
               elements == 0..(inst.m - 1)
           IN  /\ (callResult.created.sub = <<>>)
                     <=> (\E e \in elements : KeptCoverage(inst, node, e) = 0)
               /\ callResult.created.sub # <<>>
                     => /\ callResult.created.sub[1].isSolution
                              <=> (\A e \in elements :
                                      KeptCoverage(inst, node, e) = 1)
                        /\ callResult.created.sub[1].isSolution
                              => ExactCoversOf(callResult.created.sub[1].ins)
                                   = {DOMAIN callResult.created.sub[1].ins.subsets}

\* a node below the root whose kept subsets are a solution although the
\* whole instance is not
C19_Witness ==
    /\ SubInstanceCreated
    /\ callResult.created.sub[1].isSolution
    /\ callResult.node.Kind # Root
    /\ Len(callResult.created.sub[1].indices) = 2
    /\ Len(callResult.inst.subsets) = 3

----------------------------------------------------------------------------
(* C20: for every sequence of Push and Pop on LowerBoundPriorityQueue in   *)
(* which Pop is only called when Len() > 0, Len() equals the number of     *)
(* pushes minus the number of pops, each Pop returns a node that was       *)
(* pushed and not yet popped, and the returned node's LowerBound is less   *)
(* than or equal to the LowerBound of every node still in the queue.       *)

C20_QueuePopsLeastLowerBound ==
    pc = "queue" =>
        /\ callResult.len = Len(callArgs.pushed) - Len(callResult.returned)
        /\ \A k \in DOMAIN callResult.returned :
              /\ callResult.returned[k] \in Range(callArgs.pushed)
              /\ \A l \in 1..(k - 1) :
                    callResult.returned[l] # callResult.returned[k]
        /\ callResult.last = "Pop" =>
              \A k \in DOMAIN toFathom :
                  NoMoreThan64(
                      callResult.returned[Len(callResult.returned)].LowerBound,
                      toFathom[k].LowerBound)

\* a Pop that returned a node pushed neither first nor last, from a queue
\* that still holds a node with a larger lower bound and one with an equal
\* lower bound, after an earlier Pop
C20_Witness ==
    /\ pc = "queue"
    /\ callResult.last = "Pop"
    /\ Len(callResult.returned) >= 2
    /\ LET node == callResult.returned[Len(callResult.returned)]
       IN  /\ node # callArgs.pushed[1]
           /\ node # callArgs.pushed[Len(callArgs.pushed)]
           /\ \E k \in DOMAIN toFathom :
                 LessThan64(node.LowerBound, toFathom[k].LowerBound)
           /\ \E k \in DOMAIN toFathom :
                 toFathom[k].LowerBound = node.LowerBound

----------------------------------------------------------------------------
(* C21: in the branch-and-bound loop every popped node ends in exactly one *)
(* of six outcomes, tested in this order: discarded because an incumbent   *)
(* has cost <= node.lower_bound; discarded as infeasible; fathomed as a    *)
(* solution sub-instance; fathomed because the dual proved an exact        *)
(* optimum; pruned because incumbent cost <= dual objective; or branched.  *)
(* Children are pushed only in the last case, exactly two of them (one     *)
(* BothBranch, one DiffBranch) with the popped node as parent and          *)
(* lower_bound equal to that node's dual objective, and the dual engine is *)
(* never run for a node discarded, infeasible or fathomed as a solution.   *)

\* how often a node occurs in a queue
NodeCount(q, node) == Cardinality({k \in DOMAIN q : q[k] = node})

\* the first of the six tests that the popped node passes
ExpectedOutcome(node) ==
    IF incumbent # <<>>
       /\ ~LessThan64(node.LowerBound, Float64(incumbent[1].objectiveValue))
    THEN "discarded"
    ELSE IF \E e \in 0..(bbIns.m - 1) : KeptCoverage(bbIns, node, e) = 0
    THEN "infeasible"
    ELSE IF \A e \in 0..(bbIns.m - 1) : KeptCoverage(bbIns, node, e) = 1
    THEN "solution"
    ELSE IF DualOf(node).result.provenOptimalExact
    THEN "optimal"
    ELSE IF incumbent # <<>>
            /\ ~LessThan64(DualOf(node).result.dualObjectiveValue,
                           Float64(incumbent[1].objectiveValue))
    THEN "pruned"
    ELSE "branched"

\* the queue after the step holds what Pop left and, if the node was
\* branched, its two children
ChildrenPushed(node, rest, after, branched) ==
    IF ~branched THEN after = rest
    ELSE \E pair \in (0..(bbIns.m - 1)) \X (0..(bbIns.m - 1)) :
            LET child(kind) ==
                    [Kind |-> kind, Parent |-> <<node>>,
                     LowerBound |-> DualOf(node).result.dualObjectiveValue,
                     I |-> pair[1], J |-> pair[2]]
            IN  /\ Len(after) = Len(rest) + 2
                /\ \A x \in Range(after) \cup Range(rest) :
                      NodeCount(after, x) =
                          NodeCount(rest, x)
                          + (IF x = child(BothBranch) THEN 1 ELSE 0)
                          + (IF x = child(DiffBranch) THEN 1 ELSE 0)
                /\ NodeCount(after, child(BothBranch)) >= 1
                /\ NodeCount(after, child(DiffBranch)) >= 1

C21_PoppedNodeHasOneOutcome ==
    [][ (pc = "bb_loop" /\ popped' = popped + 1)
          => LET node == Pop(toFathom).node
             IN  /\ outcome' = ExpectedOutcome(node)
                 /\ ChildrenPushed(node, Pop(toFathom).queue, toFathom',
                                   outcome' = "branched")
                 /\ dualRuns' =
                       IF outcome' \in {"discarded", "infeasible", "solution"}
                       THEN dualRuns ELSE dualRuns + 1 ]_vars

\* a node below the root was branched although an incumbent existed: it
\* passed none of the first five tests, and its two children are queued
C21_Witness ==
    /\ pc = "bb_loop"
    /\ outcome = "branched"
    /\ incumbent # <<>>
    /\ popped >= 3
    /\ dualRuns >= 2
    /\ \E p, q \in DOMAIN toFathom :
          /\ toFathom[p].Kind = BothBranch
          /\ toFathom[q].Kind = DiffBranch
          /\ toFathom[p].Parent = toFathom[q].Parent
          /\ toFathom[p].Parent[1].Kind # Root

----------------------------------------------------------------------------
(* C22: at every point of the branch-and-bound loop, if an incumbent       *)
(* exists then its subsetIndices (in the duplicate-reduced numbering) name *)
(* pairwise disjoint subsets whose union is {0..m-1}, its objectiveValue   *)
(* equals the sum of those subsets' costs, and every replacement of the    *)
(* incumbent strictly lowers objectiveValue.                               *)

\* the incumbent is an exact cover of the reduced instance at its true cost
IncumbentIsExactCover ==
    incumbent # <<>> =>
        LET indices == incumbent[1].subsetIndices
        IN  /\ \A k \in DOMAIN indices :
                  indices[k] >= 0 /\ indices[k] < Len(bbIns.subsets)
            /\ \A p, q \in DOMAIN indices :
                  p # q => Range(bbIns.subsets[indices[p] + 1])
                             \cap Range(bbIns.subsets[indices[q] + 1]) = {}
            /\ UNION {Range(bbIns.subsets[indices[k] + 1]) : k \in DOMAIN indices}
                  = 0..(bbIns.m - 1)
            /\ incumbent[1].objectiveValue =
                  SeqSum([k \in DOMAIN indices |-> bbIns.costs[indices[k] + 1]])

C22_IncumbentIsCoverAndImproves ==
    [][ /\ IncumbentIsExactCover'
        /\ (incumbent # <<>> /\ incumbent' # incumbent)
              => /\ incumbent' # <<>>
                 /\ incumbent'[1].objectiveValue < incumbent[1].objectiveValue
      ]_vars

\* an incumbent of two subsets, taken from the dual engine's primal solution
\* for a node below the root, whose cost is below that of another exact cover
C22_Witness ==
    /\ pc = "bb_loop"
    /\ outcome = "optimal"
    /\ popped >= 2
    /\ incumbent # <<>>
    /\ Len(incumbent[1].subsetIndices) = 2
    /\ \E c \in CoverCosts(bbIns.subsets, bbIns.costs, 0..(bbIns.m - 1)) :
          c > incumbent[1].objectiveValue

----------------------------------------------------------------------------
(* C23: for every sub-instance with pairwise distinct subsets that is      *)
(* neither infeasible nor a solution, findBranchingElements returns a pair *)
(* (i, j) with i < j, both in [0, m), such that of the first two subsets   *)
(* containing the most-covered element one is excluded from the BothBranch *)
(* child and the other is excluded from the DiffBranch child; hence each   *)
(* child's sub-instance has strictly fewer subsets than the parent's,      *)
(* whichever element of the symmetric difference is chosen.                *)

\* the elements in the largest number of subsets of an instance
MostCovered(ins) ==
    {e \in 0..(ins.m - 1) :
        \A f \in 0..(ins.m - 1) :
            Cardinality({k \in DOMAIN ins.subsets : f \in Range(ins.subsets[k])})
              <= Cardinality({k \in DOMAIN ins.subsets :
                                e \in Range(ins.subsets[k])})}

\* the positions of the first two subsets that contain element e
FirstTwoWith(ins, e) ==
    LET with == {k \in DOMAIN ins.subsets : e \in Range(ins.subsets[k])}
    IN  {k \in with : Cardinality({l \in with : l < k}) < 2}

\* the subset satisfies the node's own constraint
SatisfiesOwn(subset, node) ==
    IF node.Kind = BothBranch
    THEN (node.I \in Range(subset)) <=> (node.J \in Range(subset))
    ELSE ~(node.I \in Range(subset) /\ node.J \in Range(subset))

C23_BranchingSplitsFirstTwoSubsets ==
    pc = "branch_found" =>
        LET parent == callResult.created.sub[1].ins
            found == callResult.branchIndices
            both == callResult.children[1]
            diff == callResult.children[2]
            reduced == callResult.reduced.ins
        IN  /\ found.err = NoError
            /\ found.i < found.j
            /\ found.i >= 0 /\ found.j < parent.m
            /\ \E e \in MostCovered(parent) \cap {found.i, found.j} :
                  \E p, q \in FirstTwoWith(parent, e) :
                      /\ p # q
                      /\ ~SatisfiesOwn(parent.subsets[p], both)
                      /\ SatisfiesOwn(parent.subsets[p], diff)
                      /\ ~SatisfiesOwn(parent.subsets[q], diff)
                      /\ SatisfiesOwn(parent.subsets[q], both)
            /\ \A c \in 1..2 :
                  Cardinality(KeptPositions(reduced, callResult.children[c]))
                      < Len(parent.subsets)

\* a sub-instance below a both-branch node whose symmetric difference offers
\* two elements, and the larger one was taken as the branching partner
C23_Witness ==
    /\ pc = "branch_found"
    /\ callArgs.node.Kind = BothBranch
    /\ Len(callResult.created.sub[1].ins.subsets) = 3
    /\ LET parent == callResult.created.sub[1].ins
           found == callResult.branchIndices
       IN  \E e \in MostCovered(parent) \cap {found.i, found.j} :
              LET pq == FirstTwoWith(parent, e)
                  sd == UNION {Range(parent.subsets[k]) : k \in pq}
                        \ {x \in 0..(parent.m - 1) :
                              \A k \in pq : x \in Range(parent.subsets[k])}
              IN  /\ Cardinality(sd) >= 2
                  /\ \E d \in sd : d # SetMin(sd) /\ d \in {found.i, found.j}

----------------------------------------------------------------------------
(* C24: for every validated instance, SolveByBranchAndBound terminates:    *)
(* the queue eventually becomes empty after finitely many pops, because    *)
(* each dual-engine call stops after its iteration limit and every         *)
(* branching produces children with strictly smaller sub-instances, so the *)
(* depth of the search tree is bounded by the number of distinct subsets.  *)

\* the number of constraints on the chain from a node to the root
RECURSIVE Depth(_)
Depth(node) == IF node.Kind = Root THEN 0 ELSE 1 + Depth(node.Parent[1])

\* every queued node lies no deeper than the number of distinct subsets, and
\* its sub-instance has lost at least one subset per level
QueuedNodesShrink ==
    pc = "bb_loop" =>
        /\ popped <= 2 ^ Len(bbIns.subsets)
        /\ \A k \in DOMAIN toFathom :
              LET created == createSubInstance(bbIns, toFathom[k])
              IN  /\ Depth(toFathom[k]) <= Len(bbIns.subsets)
                  /\ (created.err = NoError /\ created.sub # <<>>)
                        => Len(created.sub[1].ins.subsets) + Depth(toFathom[k])
                             <= Len(bbIns.subsets)

\* the number of nodes of a full binary tree that reaches from the node's
\* level down to level Len(bbIns.subsets)
Weight(node) == 2 ^ (Len(bbIns.subsets) - Depth(node) + 1) - 1

\* the number of pops the queued nodes can still cause
Potential == SeqSum([k \in DOMAIN toFathom |-> Weight(toFathom[k])])

C24_BranchAndBoundTerminates ==
    [][ /\ QueuedNodesShrink'
        /\ pc = "bb_loop"
              => \/ pc' = "bb_returned" /\ toFathom' = <<>>
                 \/ /\ pc' = "bb_loop"
                    /\ popped' = popped + 1
                    /\ Potential' < Potential
                    /\ Potential' >= 0 ]_vars

\* a search that went two levels below the root has returned
C24_Witness ==
    /\ pc = "bb_returned"
    /\ makeErr = NoError
    /\ toFathom = <<>>
    /\ popped >= 5
    /\ dualRuns >= 2

----------------------------------------------------------------------------
(* C25: for every validated instance the branch-and-bound driver never     *)
(* returns an error: no node it creates has i >= j, no ancestor chain it   *)
(* builds repeats a branching pair, findBranchingElements is only reached  *)
(* with some element in at least two subsets and with a non-empty          *)
(* symmetric difference, and every matrix it builds for the dual engine    *)
(* passes the validity check and transposes without error.                 *)

\* the branching pairs on the chain from a node to the root, nearest first
RECURSIVE ChainPairs(_)
ChainPairs(node) ==
    IF node.Kind = Root THEN <<>>
    ELSE << <<node.I, node.J>> >> \o ChainPairs(node.Parent[1])

\* every pair of the chain has i < j and no pair occurs twice
ChainWellFormed(node) ==
    LET pairs == ChainPairs(node)
    IN  /\ \A k \in DOMAIN pairs : pairs[k][1] < pairs[k][2]
        /\ \A k, l \in DOMAIN pairs : k # l => pairs[k] # pairs[l]

\* the sub-instance can be branched: some element is in two subsets, and the
\* first two subsets with a most-covered element differ
Branchable(ins) ==
    /\ \E e \in 0..(ins.m - 1) :
          Cardinality({k \in DOMAIN ins.subsets : e \in Range(ins.subsets[k])}) >= 2
    /\ \A e \in MostCovered(ins) :
          \A p, q \in FirstTwoWith(ins, e) :
              p # q => Range(ins.subsets[p]) # Range(ins.subsets[q])

\* the matrix built from the subsets passes the validity check and transposes
MatrixUsable(subsets) ==
    /\ convertSubsetsToMatrix(subsets).err = NoError
    /\ checkValidMatrixIndices(convertSubsetsToMatrix(subsets).matrix) = NoError
    /\ transpose(convertSubsetsToMatrix(subsets).matrix).err = NoError
    /\ IsTransposeOf(transpose(convertSubsetsToMatrix(subsets).matrix).matrix,
                     convertSubsetsToMatrix(subsets).matrix)

C25_DriverNeverFails ==
    [][ /\ (makeErr' = NoError /\ bbRet' # NotReturned) => bbRet'.err = NoError
        /\ outcome' # "error"
        /\ \A k \in DOMAIN toFathom' : ChainWellFormed(toFathom'[k])
        /\ (pc = "bb_loop" /\ popped' = popped + 1
              /\ outcome' \in {"optimal", "pruned", "branched"})
              => MatrixUsable(SubInstanceOf(Pop(toFathom).node).ins.subsets)
        /\ (pc = "bb_loop" /\ popped' = popped + 1 /\ outcome' = "branched")
              => Branchable(SubInstanceOf(Pop(toFathom).node).ins) ]_vars

\* a node two levels below the root is queued under two different pairs
\* after its parent has been branched
C25_Witness ==
    /\ pc = "bb_loop"
    /\ makeErr = NoError
    /\ outcome = "branched"
    /\ \E k \in DOMAIN toFathom :
          /\ Depth(toFathom[k]) = 2
          /\ ChainPairs(toFathom[k])[1] # ChainPairs(toFathom[k])[2]

----------------------------------------------------------------------------
(* C26: for every node that the driver branches on a pair (i, j), every    *)
(* exact cover made only of subsets of the node's sub-instance is made     *)
(* only of subsets kept in exactly one of the two children (the            *)
(* BothBranch child when one subset of the cover contains both i and j,    *)
(* the DiffBranch child otherwise); so branching neither loses nor         *)
(* duplicates any exact cover.                                             *)

\* the cover (positions of the parent's sub-instance) is made only of subsets
\* that createSubInstance kept for child c
CoverKeptIn(cover, c) ==
    /\ callResult.childCreated[c].err = NoError
    /\ callResult.childCreated[c].sub # <<>>
    /\ \A k \in cover :
          \E l \in DOMAIN callResult.childCreated[c].sub[1].indices :
              /\ callResult.childCreated[c].sub[1].indices[l]
                    = callResult.created.sub[1].indices[k]
              /\ callResult.childCreated[c].sub[1].ins.subsets[l]
                    = callResult.created.sub[1].ins.subsets[k]

\* some subset of the cover contains both elements of the branching pair
CoverJoinsPair(cover) ==
    \E k \in cover :
        /\ callResult.branchIndices.i
              \in Range(callResult.created.sub[1].ins.subsets[k])
        /\ callResult.branchIndices.j
              \in Range(callResult.created.sub[1].ins.subsets[k])

C26_BranchingPartitionsCovers ==
    pc = "branch_found" =>
        /\ callResult.branchIndices.err = NoError
        /\ callResult.children[1].Kind = BothBranch
        /\ callResult.children[2].Kind = DiffBranch
        /\ \A cover \in ExactCoversOf(callResult.created.sub[1].ins) :
              /\ CoverKeptIn(cover, 1) <=> CoverJoinsPair(cover)
              /\ CoverKeptIn(cover, 2) <=> ~CoverJoinsPair(cover)

\* a sub-instance with two exact covers, one kept in the both-branch child
\* and the other in the diff-branch child
C26_Witness ==
    /\ pc = "branch_found"
    /\ callResult.branchIndices.err = NoError
    /\ \E a, b \in ExactCoversOf(callResult.created.sub[1].ins) :
          /\ a # b
          /\ CoverKeptIn(a, 1) /\ ~CoverKeptIn(a, 2)
          /\ CoverKeptIn(b, 2) /\ ~CoverKeptIn(b, 1)

----------------------------------------------------------------------------
(* C27: within the dual engine's loop the full dual objective (with the    *)
(* proven-optimality check that can end the loop early) is computed        *)
(* exactly at the iterations k = 2, 4, 8, 16, ... (powers of two) and at   *)
(* no other iteration.                                                     *)

\* k is one of 2, 4, 8, 16, ...
RECURSIVE PowerOfTwo(_)
PowerOfTwo(k) ==
    IF k < 2 THEN FALSE
    ELSE IF k = 2 THEN TRUE
    ELSE k % 2 = 0 /\ PowerOfTwo(k \div 2)

\* the loop body has just run through "2. find x" of an iteration (it did
\* not leave through the zero-subgradient return)
IterationCompleted ==
    /\ pc \in {"dual_loop", "dual_returned"}
    /\ callResult.exit \in {"none", "status"}
    /\ callResult.k >= 1

\* that iteration: the return of a status check leaves k at it, "k++" has
\* moved k past it otherwise
CompletedIteration ==
    IF callResult.exit = "status" THEN callResult.k ELSE callResult.k - 1

C27_StatusAtPowersOfTwo ==
    IterationCompleted
        => (callResult.checked <=> PowerOfTwo(CompletedIteration))

----------------------------------------------------------------------------
(* C28: at every return point of runDualIterations (iteration limit,       *)
(* zero-subgradient exit taken before the primal update, cadence exit) the *)
(* multipliers satisfy u_i >= 0 for every row and the returned primal is   *)
(* the Lagrangian minimiser for those multipliers: x_j = 1 if and only if  *)
(* (u^T A)_j > c_j; in particular, on the zero-subgradient exit the dual   *)
(* update of that iteration left u unchanged.                              *)

\* (u^T A)_q for column q (1-based) of the column storage matrix
RECURSIVE MultiplierSumFrom(_, _, _, _, _)
MultiplierSumFrom(aC, u, q, r, total) ==
    IF r > Len(u) THEN total
    ELSE MultiplierSumFrom(aC, u, q, r + 1,
                           IF InColumn(aC, q, r - 1) = 0 THEN total
                           ELSE Plus64(total, u[r]))

\* every row occurs at most once in a column of the matrices given here
MultiplierSum(aC, u, q) == MultiplierSumFrom(aC, u, q, 1, Float64(0))

\* the primal solution selects exactly the columns with (u^T A)_q > c_q
LagrangianMinimiser(aC, costs, u, primalSolution) ==
    \A q \in 1..CountSen(aC) :
        (q - 1 \in Range(primalSolution))
            <=> LessThan64(costs[q], MultiplierSum(aC, u, q))

\* a step into a return of runDualIterations leaves every multiplier >= 0,
\* one per row, the primal solution the Lagrangian minimiser for them, and,
\* on the zero-subgradient exit, u as it was before the iteration
ReturnedPrimalMinimises ==
    DualReturned'
        => /\ \A r \in DOMAIN callResult'.u :
                 NoMoreThan64(Float64(0), callResult'.u[r])
           /\ Len(callResult'.u) = Cardinality(RowsOf(callArgs.aC))
           /\ LagrangianMinimiser(callArgs.aC, callArgs.costs,
                                  callResult'.u,
                                  callResult'.result.primalSolution)
           /\ callResult'.exit = "subgradient"
                 => callResult'.u = callResult.u

\* C28 as stated: at every return point of runDualIterations, for every
\* matrix, u_i >= 0 for every row, the returned primal is the Lagrangian
\* minimiser for those multipliers, and on the zero-subgradient exit the
\* dual update of that iteration left u unchanged.  A matrix with an empty
\* column refutes it.
C28_ReturnedPrimalMinimises == [][ReturnedPrimalMinimises]_vars

\* C28, amended: at every return point of runDualIterations for a matrix
\* without an empty column, u_i >= 0 for every row and the returned primal
\* is the Lagrangian minimiser for those multipliers (x_j = 1 if and only if
\* (u^T A)_j > c_j); on the zero-subgradient exit the dual update of that
\* iteration left u unchanged.
C28_ReturnedPrimalMinimisesWithoutEmptyColumn ==
    [][NoEmptyColumn(callArgs.aC) => ReturnedPrimalMinimises]_vars

\* a zero-subgradient exit after several iterations with two columns
\* selected and a positive multiplier on every row, for a matrix without an
\* empty column
C28_Witness ==
    /\ DualReturned
    /\ NoEmptyColumn(callArgs.aC)
    /\ callResult.exit = "subgradient"
    /\ callResult.k >= 2
    /\ Len(callResult.result.primalSolution) = 2
    /\ CountSen(callArgs.aC) = 3
    /\ \A r \in DOMAIN callResult.u :
          LessThan64(Float64(0), callResult.u[r])

----------------------------------------------------------------------------
(* C29: for every validated instance with m > 0 and 0 <= n <= 32 subsets   *)
(* (including n = 0 and n = 32), the bitmask brute-force loop evaluates    *)
(* exactly the 2^n - 1 non-empty selection masks, each once in increasing  *)
(* numeric order, and then stops without the uint32 counter wrapping       *)
(* around; and whenever it copies a found cover into the incumbent, the    *)
(* cover's length does not exceed the incumbent buffer capacity min(m, n), *)
(* so no out-of-range slice access occurs.                                 *)

\* the bitmask solver is running, or has returned, on a validated instance
\* with elements and at most BruteLimit subsets
BitmaskSolverOnElements ==
    /\ pc \in {"brute2_loop", "done"}
    /\ makeErr = NoError
    /\ solverInstance.m > 0
    /\ Len(solverInstance.subsets) <= BruteLimit

C29_BitmaskLoopEvaluatesEachMaskOnce ==
    BitmaskSolverOnElements =>
        LET n == Len(solverInstance.subsets)
        IN  /\ comb \subseteq 0..(n - 1)
            /\ masksDone \subseteq 0..(n - 1)
            /\ pc = "done" => masksDone = LastComb(n)
            /\ pc = "brute2_loop" => comb = PlusBits(masksDone, {0})
            /\ Len(bestSubsetsEval.SubsetsIndices) <= Min(solverInstance.m, n)

----------------------------------------------------------------------------
(* C30: when several exact covers share the minimum cost, the brute-force  *)
(* solver returns the one reached first when selections are enumerated by  *)
(* size 1, 2, .., min(m, n) and lexicographically within each size (the    *)
(* incumbent is replaced only on strictly lower cost); every brute-force   *)
(* variant in the repository returns that same cover.                      *)

\* the exact covers of the caller's instance that have the minimum cost, as
\* ascending sequences of 0-based subset indices
MinimumCovers ==
    LET covers == ExactCoversOf(input)
        costOf(S) == SeqSum([k \in 1..Cardinality(S) |->
                                input.costs[SortedSeq(S)[k]]])
    IN  { SortedSeq({q - 1 : q \in S}) :
            S \in {T \in covers : \A U \in covers : costOf(T) <= costOf(U)} }

\* a comes before b when selections are enumerated by size and then
\* lexicographically
EnumeratedBefore(a, b) ==
    \/ Len(a) < Len(b)
    \/ Len(a) = Len(b) /\ LexLess(a, b)

\* both brute-force solvers have returned a cover of the caller's instance
BothBruteForceCovers ==
    /\ pc = "done"
    /\ makeErr = NoError
    /\ input.m > 0
    /\ bruteRet.err = NoError /\ brute2Ret.err = NoError
    /\ bruteRet.eval.ExactlyCovered

C30_TiesGoToFirstEnumerated ==
    BothBruteForceCovers =>
        /\ bruteRet.eval.SubsetsIndices \in MinimumCovers
        /\ \A other \in MinimumCovers \ {bruteRet.eval.SubsetsIndices} :
              EnumeratedBefore(bruteRet.eval.SubsetsIndices, other)
        /\ brute2Ret.eval.SubsetsIndices = bruteRet.eval.SubsetsIndices

====
